---- MODULE Spec2Model ----
(***************************************************************************)
(* A model of the effect engines of improter-ai-pose-detection:            *)
(*   - the colour utilities (hexToRgb),                                    *)
(*   - the two firework engines (FireworksManager with owned sparks, and   *)
(*     FireworksSystem with a SparkPool ring buffer),                      *)
(*   - the PoseVisualizer painter (keypoints, skeleton, trails, circles),  *)
(*   - the legacy sketch's trail painter,                                  *)
(*   - the frame orchestrator of public/sketch.js.                         *)
(* Each engine has its own variables and its own specification; an engine  *)
(* that a specification does not drive keeps its constructed state.        *)
(*                                                                         *)
(* Numbers: confidences are in hundredths (0.1 -> 10), spark life is in    *)
(* thousandths (255 -> 255000) and spark decay in tenths (3.0 -> 30), so   *)
(* that life -= decay * 0.7 is the exact integer step decay * 70.          *)
(* Positions and velocities of sparks and particles are not modelled: no   *)
(* guard of the code reads them.                                           *)
(***************************************************************************)
EXTENDS Integers, Sequences, FiniteSets, TLC

VARIABLES
    focus,          \* which engine this run drives (the engines do not interact)
    hexIn,          \* hexToRgb: the argument, a sequence of characters
    hexOut,         \* hexToRgb: << >> before the call, then << the results of both hexToRgb methods >>
    mgrFireworks,   \* FireworksManager.fireworks: bursts with their own sparks
    mgrPurged,      \* the bursts the last updateAndDraw found isDead() and dropped
    mgrSince,       \* updateAndDraw calls since the last FireworksManager.trigger
    mgrTriggers,    \* number of FireworksManager.trigger calls so far
    pool,           \* SparkPool.pool: the pre-allocated Spark objects, slot 0 first
    cursor,         \* SparkPool.cursor
    sysFireworks,   \* FireworksSystem.fireworks: bursts holding references to pool slots
    sysPurged,      \* the bursts the last updateAndDraw found isDead() and dropped
    sysSince,       \* updateAndDraw calls since the last FireworksSystem.trigger
    gets,           \* every SparkPool.get() so far: the slot returned, and whether it was active
    paintMode,      \* PoseVisualizer.paintMode
    poseTrails,     \* PoseVisualizer.poseTrails: per pose slot, the buffered snapshots
    poseColors,     \* PoseVisualizer.poseColors: per pose slot, << >> or << keypoint -> palette index, 0 unset >>
    poseLastPositions, \* PoseVisualizer.poseLastPositions: per slot, << >> or << tracked point -> << >> or << position >> >>
    poseStillnessTime, \* PoseVisualizer.poseStillnessTime: per slot, << >> or << ms >>
    handsUpGrowth,  \* PoseVisualizer.handsUpGrowth, in hundredths
    drawn,          \* the draw calls of the last visualize / paintOnCanvas call, in order
    frame,          \* the last visualize call: its poses and paint mode, and per pose what
                    \* checkHandsUp returned and how updateMovementTracking classified the
                    \* movement
    trailPushes,    \* per pose slot, the number of snapshots pushed since the buffers were created
    legacyTrails,   \* the legacy sketch's poseTrails (src/sketch.js)
    isCameraActive, \* public/sketch.js: isCameraActive
    isPresentationMode, \* public/sketch.js: isPresentationMode
    sysEnabled,     \* FireworksSystem.enabled
    smokeParticles, \* SmokeSystem.particles: the lifespan of each particle held
    now,            \* the value millis() gave in the last frame
    threw,          \* whether the last visualize call ended in a TypeError
    fireworksActiveUntil, \* PoseVisualizer.fireworksActiveUntil
    fireworksCooldown,    \* PoseVisualizer.fireworksCooldown
    fwAlt,          \* PoseVisualizer._fwAlt (0 while undefined)
    fwLog,          \* every gesture hand burst so far: its hand, pose slot and tick
    sysLastEmit,    \* FireworksSystem.lastEmit
    seenModes,      \* the paint mode paintOnCanvas and updateParticles read in the last draw()
    particleSystem, \* the ParticleSystem: initialized, particleCount and its emitters
    smokeLog,       \* the last direct SmokeSystem call: what it was, the particles before it, the
                    \* particles an emitFromPose asked for, and the emitFromPose calls so far
    spaceKey,       \* the last Space keydown: how many there were, the paint mode it found,
                    \* and the FireworksSystem it found (enabled, number of bursts)
    allHandsUp,     \* PoseVisualizer.allHandsUpTime, with the last checkAllHandsUp call: its
                    \* poses, what it returned, and the number of calls in a row, up to it,
                    \* in which every pose had its hands up
    smokeSystem     \* SmokeSystem: lastPositions, stillnessTime, sizeMultiplier and
                    \* targetSizeMultiplier, the baseSize of each particle held, what the
                    \* emitFromPose calls of the last frame measured, and the circles the last
                    \* run() drew

hexVars == <<hexIn, hexOut>>
mgrVars == <<mgrFireworks, mgrPurged, mgrSince, mgrTriggers>>
sysVars == <<pool, cursor, sysFireworks, sysPurged, sysSince, gets>>
visVars == <<paintMode, poseTrails, poseColors, poseLastPositions, poseStillnessTime,
             handsUpGrowth, drawn, frame, trailPushes>>
appVars == <<isCameraActive, isPresentationMode, sysEnabled, smokeParticles>>
fwVars == <<threw, fireworksActiveUntil, fireworksCooldown, fwAlt, fwLog>>
extVars == <<now, fwVars, sysLastEmit, seenModes, particleSystem, smokeLog, smokeSystem, allHandsUp, spaceKey>>
vars == <<focus, hexVars, mgrVars, sysVars, visVars, legacyTrails, appVars, extVars>>

Min(a, b) == IF a < b THEN a ELSE b
Max(a, b) == IF a > b THEN a ELSE b

(***************************************************************************)
(* hexToRgb                                                                *)
(***************************************************************************)
LowerDigits == <<"0","1","2","3","4","5","6","7","8","9","a","b","c","d","e","f">>
UpperDigits == <<"0","1","2","3","4","5","6","7","8","9","A","B","C","D","E","F">>

\* [a-f\d] under the /i flag
IsHexDigit(c) == \E i \in 1..16 : LowerDigits[i] = c \/ UpperDigits[i] = c

\* the value parseInt gives one hex digit
DigitValue(c) == (CHOOSE i \in 1..16 : LowerDigits[i] = c \/ UpperDigits[i] = c) - 1

\* parseInt(pair, 16) of a two-character group
ParseInt16(pair) == 16 * DigitValue(pair[1]) + DigitValue(pair[2])

\* /^#?([a-f\d]{2})([a-f\d]{2})([a-f\d]{2})$/i.exec(hex): the three groups, or <<>> for null
HexRegexExec(hex) ==
    LET body == IF Len(hex) > 0 /\ hex[1] = "#" THEN Tail(hex) ELSE hex
    IN  IF Len(body) = 6 /\ \A i \in 1..6 : IsHexDigit(body[i])
        THEN << SubSeq(body, 1, 2), SubSeq(body, 3, 4), SubSeq(body, 5, 6) >>
        ELSE << >>

\* the null a failed match gives
Null == [null |-> TRUE]

GroupsToRgb(m) == [r |-> ParseInt16(m[1]), g |-> ParseInt16(m[2]), b |-> ParseInt16(m[3])]

\* a plausible slip: the green and blue groups exchanged
HexToRgbSwapped(hex) ==
    LET m == HexRegexExec(hex)
    IN  IF m # << >>
        THEN [r |-> ParseInt16(m[1]), g |-> ParseInt16(m[3]), b |-> ParseInt16(m[2])]
        ELSE Null

\* PoseVisualizer.hexToRgb (and the legacy sketch's hexToRgb): null when no match
HexToRgb(hex) ==
    LET m == HexRegexExec(hex)
    IN  IF m # << >> THEN GroupsToRgb(m) ELSE Null

\* Spark.hexToRgb: white when no match
SparkHexToRgb(hex) ==
    LET m == HexRegexExec(hex)
    IN  IF m # << >> THEN GroupsToRgb(m) ELSE [r |-> 255, g |-> 255, b |-> 255]

\* the characters the checked arguments are built from ("g" is no hex digit)
HexAlphabet == {"9", "a", "F", "g"}
HexBodies == [1..6 -> HexAlphabet] \cup [1..5 -> HexAlphabet]
HexInputs == HexBodies \cup { <<"#">> \o b : b \in HexBodies }

InitHex == hexIn = << >> /\ hexOut = << >>

ConvertHex ==
    /\ focus = "hex"
    /\ hexOut = << >>
    /\ hexOut' = << [vis |-> HexToRgb(hexIn), spark |-> SparkHexToRgb(hexIn)] >>
    /\ UNCHANGED <<focus, extVars, hexIn, mgrVars, sysVars, visVars, legacyTrails, appVars>>

(***************************************************************************)
(* FireworksManager (pose-visualizer.js): every burst owns its sparks      *)
(***************************************************************************)
\* const n = 90 in the Firework constructors, scaled down
SparksPerBurst == 2
\* at most this many bursts are triggered in one run
MaxTriggers == 2
\* this.life = 255, in thousandths below
InitialLife == 255
\* random(3, 6): the least decay, and the decays the runs draw, in tenths
MinDecay == 3
DecayChoices == {MinDecay * 10, 59}
\* the environment triggers a further burst this many frames after the last one
TriggerGaps == {0, 1, 62}
\* ceil(255 / (3 * 0.7)): the update calls a spark of least decay survives, plus one
LifeBound == (InitialLife * 1000 + MinDecay * 700 - 1) \div (MinDecay * 700)

NewSpark(decay) == [life |-> InitialLife * 1000, decay |-> decay]

\* Spark.update of pose-visualizer.js: this.life -= this.decay * 0.7
MgrSparkUpdate(s) == [s EXCEPT !.life = @ - s.decay * 70]

\* a plausible slip: a spark counts as dead once it is dim
MgrSparkIsDeadDim(s) == s.life <= 100000

\* Spark.isDead
MgrSparkIsDead(s) == s.life <= 0

\* new Firework(x, y, colorHex): n sparks; born keeps every spark created
MgrNewFirework(decays, seq) ==
    [sparks |-> [i \in 1..SparksPerBurst |-> NewSpark(decays[i])],
     gone   |-> << >>,
     age    |-> 0,
     seq    |-> seq]

\* Firework.update: update every spark, then keep those not isDead();
\* gone records the sparks dropped, as they were when dropped
MgrFireworkUpdate(f) ==
    LET upd == [i \in DOMAIN f.sparks |-> MgrSparkUpdate(f.sparks[i])]
        Dead(s)  == MgrSparkIsDead(s)
        Alive(s) == ~MgrSparkIsDead(s)
    IN  [f EXCEPT !.sparks = SelectSeq(upd, Alive),
                  !.gone   = @ \o SelectSeq(upd, Dead),
                  !.age    = @ + 1]

\* Firework.isDead
FireworkIsDead(f) == Len(f.sparks) = 0

InitMgr ==
    /\ mgrFireworks = << >>
    /\ mgrPurged = << >>
    /\ mgrSince = 0
    /\ mgrTriggers = 0

\* FireworksManager.trigger
MgrTrigger ==
    /\ focus = "manager"
    /\ mgrTriggers < MaxTriggers
    /\ mgrTriggers > 0 => mgrSince \in TriggerGaps
    /\ \E decays \in [1..SparksPerBurst -> DecayChoices] :
          mgrFireworks' = Append(mgrFireworks, MgrNewFirework(decays, mgrTriggers + 1))
    /\ mgrTriggers' = mgrTriggers + 1
    /\ mgrSince' = 0
    /\ mgrPurged' = << >>
    /\ UNCHANGED <<focus, extVars, hexVars, sysVars, visVars, legacyTrails, appVars>>

\* FireworksManager.updateAndDraw: update every burst, then filter out the dead
MgrUpdateAndDraw ==
    /\ focus = "manager"
    /\ LET upd == [i \in DOMAIN mgrFireworks |-> MgrFireworkUpdate(mgrFireworks[i])]
           Dead(f)  == FireworkIsDead(f)
           Alive(f) == ~FireworkIsDead(f)
       IN  /\ mgrFireworks' = SelectSeq(upd, Alive)
           /\ mgrPurged' = SelectSeq(upd, Dead)
    /\ mgrSince' = IF mgrTriggers > 0 THEN Min(mgrSince + 1, LifeBound + 1) ELSE mgrSince
    /\ UNCHANGED <<focus, extVars, hexVars, mgrTriggers, sysVars, visVars, legacyTrails, appVars>>

(***************************************************************************)
(* FireworksSystem (fireworks-system.js): bursts share a SparkPool         *)
(***************************************************************************)
\* new SparkPool(1200), scaled down
PoolSize == 3

\* new Spark() of fireworks-system.js
FreshSpark == [life |-> 0, decay |-> 0, active |-> FALSE]

\* Spark.init: life = 255, a new decay, active = true
SparkInit(decay) == [life |-> InitialLife * 1000, decay |-> decay, active |-> TRUE]

\* Spark.update of fireworks-system.js: nothing when inactive; inactive once life <= 0
SparkUpdate(s) ==
    IF ~s.active THEN s
    ELSE LET life == s.life - s.decay * 70
         IN  [s EXCEPT !.life = life, !.active = ~(life <= 0)]

\* a plausible slip: the cursor is reset one slot early
NextCursorShort(c) == (c + 1) % (PoolSize - 1)

\* SparkPool.get: this.cursor++ ; this.cursor %= this.pool.length
NextCursor(c) == (c + 1) % Len(pool)

\* the slots n successive get() calls return, starting with the cursor at c
RECURSIVE GetSlots(_, _)
GetSlots(c, n) == IF n = 0 THEN << >> ELSE <<c>> \o GetSlots(NextCursor(c), n - 1)

RECURSIVE CursorAfter(_, _)
CursorAfter(c, n) == IF n = 0 THEN c ELSE CursorAfter(NextCursor(c), n - 1)

\* the Firework constructor's loop: spark = sparkPool.get(); spark.init(...)
RECURSIVE InitSlots(_, _, _)
InitSlots(p, slots, decays) ==
    IF slots = << >> THEN p
    ELSE InitSlots([p EXCEPT ![Head(slots) + 1] = SparkInit(Head(decays))],
                   Tail(slots), Tail(decays))

\* for (const s of this.sparks) s.update()
RECURSIVE UpdateSlots(_, _)
UpdateSlots(p, slots) ==
    IF slots = << >> THEN p
    ELSE UpdateSlots([p EXCEPT ![Head(slots) + 1] = SparkUpdate(@)], Tail(slots))

\* Firework.update: update the sparks, keep the active ones. The result is the
\* burst and the pool after it.
SysFireworkUpdate(f, p) ==
    LET q == UpdateSlots(p, f.sparks)
        Active(slot)   == q[slot + 1].active
        Inactive(slot) == ~q[slot + 1].active
        dropped == SelectSeq(f.sparks, Inactive)
    IN  [burst |-> [f EXCEPT !.sparks = SelectSeq(f.sparks, Active),
                             !.gone = @ \o [i \in DOMAIN dropped |->
                                               [slot |-> dropped[i], life |-> q[dropped[i] + 1].life]],
                             !.age = @ + 1],
         pool  |-> q]

\* for (const f of this.fireworks) f.update(): the bursts in order, on the one pool
RECURSIVE SysUpdateAll(_, _, _)
SysUpdateAll(fs, p, done) ==
    IF fs = << >> THEN [fireworks |-> done, pool |-> p]
    ELSE LET r == SysFireworkUpdate(Head(fs), p)
         IN  SysUpdateAll(Tail(fs), r.pool, Append(done, r.burst))

InitSys ==
    /\ pool = [i \in 1..PoolSize |-> FreshSpark]
    /\ cursor = 0
    /\ sysFireworks = << >>
    /\ sysPurged = << >>
    /\ sysSince = 0
    /\ gets = << >>

\* the FireworksSystem as one value
SysState == [pool |-> pool, cursor |-> cursor, fireworks |-> sysFireworks,
             purged |-> sysPurged, since |-> sysSince, gets |-> gets]

\* FireworksSystem.trigger: push(new Firework(x, y, colorHex, this.sparkPool))
SysTriggered(ss, decays) ==
    LET slots == GetSlots(ss.cursor, SparksPerBurst)
    IN  [pool |-> InitSlots(ss.pool, slots, decays),
         cursor |-> CursorAfter(ss.cursor, SparksPerBurst),
         fireworks |-> Append(ss.fireworks,
                          [sparks |-> slots, born |-> slots, gone |-> << >>, age |-> 0,
                           seq |-> Len(ss.gets) \div SparksPerBurst + 1]),
         purged |-> << >>,
         since |-> 0,
         gets |-> ss.gets \o [i \in 1..SparksPerBurst |->
                     [slot |-> slots[i],
                      wasActive |-> InitSlots(ss.pool, SubSeq(slots, 1, i - 1),
                                              decays)[slots[i] + 1].active]]]

\* a plausible slip: dead bursts removed by swapping the last burst into their place
RECURSIVE SwapRemove(_, _)
SwapRemove(fs, i) ==
    IF i > Len(fs) THEN fs
    ELSE IF FireworkIsDead(fs[i])
    THEN SwapRemove(SubSeq([fs EXCEPT ![i] = fs[Len(fs)]], 1, Len(fs) - 1), i)
    ELSE SwapRemove(fs, i + 1)
SysUpdatedSwapRemove(ss) ==
    LET r == SysUpdateAll(ss.fireworks, ss.pool, << >>)
        Dead(f)  == FireworkIsDead(f)
    IN  [ss EXCEPT !.pool = r.pool,
                   !.fireworks = SwapRemove(r.fireworks, 1),
                   !.purged = SelectSeq(r.fireworks, Dead),
                   !.since = IF ss.gets # << >> THEN Min(@ + 1, LifeBound + 1) ELSE @]

\* FireworksSystem.updateAndDraw
SysUpdated(ss) ==
    LET r == SysUpdateAll(ss.fireworks, ss.pool, << >>)
        Dead(f)  == FireworkIsDead(f)
        Alive(f) == ~FireworkIsDead(f)
    IN  [ss EXCEPT !.pool = r.pool,
                   !.fireworks = SelectSeq(r.fireworks, Alive),
                   !.purged = SelectSeq(r.fireworks, Dead),
                   !.since = IF ss.gets # << >> THEN Min(@ + 1, LifeBound + 1) ELSE @]

\* FireworksSystem.clear
SysCleared(ss) == [ss EXCEPT !.fireworks = << >>]

SetSys(ss) ==
    /\ pool' = ss.pool
    /\ cursor' = ss.cursor
    /\ sysFireworks' = ss.fireworks
    /\ sysPurged' = ss.purged
    /\ sysSince' = ss.since
    /\ gets' = ss.gets

SysTrigger ==
    /\ focus = "system"
    /\ Len(gets) + SparksPerBurst <= MaxTriggers * SparksPerBurst
    /\ gets # << >> => sysSince \in TriggerGaps
    /\ \E decays \in [1..SparksPerBurst -> DecayChoices] : SetSys(SysTriggered(SysState, decays))
    /\ UNCHANGED <<focus, extVars, hexVars, mgrVars, visVars, legacyTrails, appVars>>

SysUpdateAndDraw ==
    /\ focus = "system"
    /\ SetSys(SysUpdated(SysState))
    /\ UNCHANGED <<focus, extVars, hexVars, mgrVars, visVars, legacyTrails, appVars>>

(***************************************************************************)
(* Poses: a pose is the sequence of its keypoints, nose first; keypoint j  *)
(* of the code is element j + 1 here.                                      *)
(***************************************************************************)
\* visualSettings.minConfidence = 0.1, in hundredths
MinConfidence == 10
\* at most this many poses in one frame
MaxPoses == 2

\* a standing body: nose, eyes, ears, shoulders, elbows, wrists, hips, knees, ankles
BaseX == <<320, 310, 330, 300, 340, 280, 360, 260, 380, 250, 390, 300, 340, 300, 340, 300, 340>>
BaseY == <<100, 90, 90, 95, 95, 200, 200, 280, 280, 150, 150, 350, 350, 430, 430, 500, 500>>

\* the pose moved by (dx, dy), its wrists at heights lwy and rwy, with confidences conf
MkPose(dx, dy, lwy, rwy, conf) ==
    [n \in 1..Len(BaseX) |->
        [x |-> BaseX[n] + dx,
         y |-> (IF n = 10 THEN lwy ELSE IF n = 11 THEN rwy ELSE BaseY[n]) + dy,
         confidence |-> conf[n]]]

ConfAll(c) == [n \in 1..Len(BaseX) |-> c]
ConfOnly(S, c, rest) == [n \in 1..Len(BaseX) |-> IF (n - 1) \in S THEN c ELSE rest]

\* connections = bodyPose.getSkeleton(): the table of keypoint-index pairs
Connections ==
    << <<0, 1>>, <<0, 2>>, <<1, 3>>, <<2, 4>>, <<5, 6>>, <<5, 7>>, <<5, 11>>, <<6, 8>>,
       <<6, 12>>, <<7, 9>>, <<8, 10>>, <<11, 12>>, <<11, 13>>, <<12, 14>>, <<13, 15>>,
       <<14, 16>> >>

(***************************************************************************)
(* PoseVisualizer (pose-visualizer.js): the painter                        *)
(* handsUpGrowth is in hundredths (growthSpeed 0.02 -> 2, the maximum 3.0  *)
(* -> 300) and *= 0.95 rounds down to a hundredth.                         *)
(***************************************************************************)
\* this.poseMovementThreshold
PoseMovementThreshold == 15
\* this.maxGrowthMultiplier = 3.0
MaxGrowthMultiplier == 3 * 100
\* this.growthSpeed = 0.02
GrowthSpeed == 2
\* this.colorPalette.length
PaletteSize == 6
\* Math.floor(Math.random() * 17)
RandomIndexRange == 17
\* the trail caps: length > 15 in drawTrails, length > 20 in the legacy sketch
TrailCap == 15
LegacyTrailCap == 20
\* this.fireworksInterval = 320
FireworksInterval == 320
\* this.fireworksActiveUntil = millis() + 2500
SustainMs == 2500
\* millis() - this.fireworksCooldown > 1000
QuietMs == 1000
\* lw.y < shoulderY - 10
ShoulderMargin == 10
\* const ringCount = 4
RingCount == 4
\* the time between two frames at ~60 fps, in ms
FrameMs == 16

Keypoint(pose, j) == pose[j + 1]

\* pose.keypoints[j] is not undefined
Has(pose, j) == j < Len(pose)

\* a plausible slip: the threshold test made inclusive
TrustedInclusive(k, minC) == k.confidence >= minC

\* keypoint.confidence > minConfidence
Trusted(k, minC) == k.confidence > minC

\* a plausible slip: both wrists required
CheckHandsUpBoth(pose, minC) ==
    LET nose == Keypoint(pose, 0)
        leftWrist == Keypoint(pose, 9)
        rightWrist == Keypoint(pose, 10)
    IN  /\ ~(nose.confidence < minC)
        /\ leftWrist.confidence > minC /\ leftWrist.y < nose.y
        /\ rightWrist.confidence > minC /\ rightWrist.y < nose.y

\* checkHandsUp
CheckHandsUp(pose, minC) ==
    LET nose == Keypoint(pose, 0)
        leftWrist == Keypoint(pose, 9)
        rightWrist == Keypoint(pose, 10)
        left == IF leftWrist.confidence > minC /\ leftWrist.y < nose.y THEN 1 ELSE 0
        right == IF rightWrist.confidence > minC /\ rightWrist.y < nose.y THEN 1 ELSE 0
    IN  IF nose.confidence < minC THEN FALSE ELSE left + right > 0

\* checkHandsUp reads .confidence of undefined: the nose is missing, or the nose passes
\* and a wrist is missing
CheckHandsUpThrows(pose, minC) ==
    \/ ~Has(pose, 0)
    \/ /\ ~(Keypoint(pose, 0).confidence < minC)
       /\ ~Has(pose, 9) \/ ~Has(pose, 10)

\* the indices of a pose's keypoints, in loop order
KeypointIndices(pose) == [n \in 1..Len(pose) |-> n - 1]

\* drawKeypoints: one circle per keypoint above the threshold
DrawKeypoints(pose, i, minC) ==
    LET Shown(j) == Trusted(Keypoint(pose, j), minC)
        idx == SelectSeq(KeypointIndices(pose), Shown)
    IN  [n \in 1..Len(idx) |->
            [op |-> "circle", pose |-> i, kp |-> idx[n],
             x |-> Keypoint(pose, idx[n]).x, y |-> Keypoint(pose, idx[n]).y]]

\* drawSkeleton: one line per connection with both endpoints above the threshold
DrawSkeleton(pose, i, connections, minC) ==
    LET Shown(c) == /\ Trusted(Keypoint(pose, c[1]), minC)
                    /\ Trusted(Keypoint(pose, c[2]), minC)
        cs == SelectSeq(connections, Shown)
    IN  [n \in 1..Len(cs) |->
            [op |-> "line", pose |-> i, a |-> cs[n][1], b |-> cs[n][2],
             ax |-> Keypoint(pose, cs[n][1]).x, ay |-> Keypoint(pose, cs[n][1]).y,
             bx |-> Keypoint(pose, cs[n][2]).x, by |-> Keypoint(pose, cs[n][2]).y]]

\* the first connection at which drawSkeleton reads .confidence of undefined (0: none):
\* pointA is missing, or pointA passes the test and pointB is missing
SkeletonThrowsAt(pose, connections, minC) ==
    LET Throws(n) ==
            \/ ~Has(pose, connections[n][1])
            \/ /\ Trusted(Keypoint(pose, connections[n][1]), minC)
               /\ ~Has(pose, connections[n][2])
        bad == { n \in DOMAIN connections : Throws(n) }
    IN  IF bad = {} THEN 0 ELSE CHOOSE n \in bad : \A m \in bad : n <= m

\* drawSkeleton, on the painter state st: the lines up to the connection that throws
DrawSkeletonOn(st, pose, i, connections, minC) ==
    LET t == SkeletonThrowsAt(pose, connections, minC)
        cs == IF t = 0 THEN connections ELSE SubSeq(connections, 1, t - 1)
    IN  [st EXCEPT !.drawn = @ \o DrawSkeleton(pose, i, cs, minC),
                   !.threw = (t # 0)]

\* currentKeypoints: the {x, y} of the keypoints above the threshold; seq numbers the push
Snapshot(pose, minC, seq) ==
    LET Shown(k) == Trusted(k, minC)
        ks == SelectSeq(pose, Shown)
    IN  [seq |-> seq, pts |-> [n \in 1..Len(ks) |-> [x |-> ks[n].x, y |-> ks[n].y]]]

\* a plausible slip: the newest snapshot dropped when the buffer is over its cap
PushCappedNewest(buf, snap, cap) ==
    LET b == Append(buf, snap)
    IN  IF Len(b) > cap THEN SubSeq(b, 1, Len(b) - 1) ELSE b

\* push(currentKeypoints); if (length > cap) shift()
PushCapped(buf, snap, cap) ==
    LET b == Append(buf, snap)
    IN  IF Len(b) > cap THEN Tail(b) ELSE b

\* a plausible slip: the loop stops before the last buffered snapshot
TrailDrawsOlder(buf, i, t) ==
    LET Older(d) == d.t < Len(buf) - 1
        AllFrom[u \in 1..(Len(buf) + 1)] ==
            IF u >= Len(buf) THEN << >>
            ELSE [k \in 1..Len(buf[u + 1].pts) |->
                    [op |-> "trail", pose |-> i, t |-> u, len |-> Len(buf),
                     seq |-> buf[u + 1].seq,
                     x |-> buf[u + 1].pts[k].x, y |-> buf[u + 1].pts[k].y]]
                 \o AllFrom[u + 1]
    IN  SelectSeq(AllFrom[t], Older)

\* for (t = ...; t < length; t++) for (k ...) circle(...): alpha is t / len of the opacity
RECURSIVE TrailDraws(_, _, _)
TrailDraws(buf, i, t) ==
    IF t >= Len(buf) THEN << >>
    ELSE [k \in 1..Len(buf[t + 1].pts) |->
            [op |-> "trail", pose |-> i, t |-> t, len |-> Len(buf), seq |-> buf[t + 1].seq,
             x |-> buf[t + 1].pts[k].x, y |-> buf[t + 1].pts[k].y]]
         \o TrailDraws(buf, i, t + 1)

\* drawTrails, on the painter state st
DrawTrails(st, pose, i, minC) ==
    LET seq == st.pushes[i + 1] + 1
        buf == PushCapped(st.trails[i + 1], Snapshot(pose, minC, seq), TrailCap)
    IN  [st EXCEPT !.trails[i + 1] = buf,
                   !.pushes[i + 1] = seq,
                   !.drawn = @ \o TrailDraws(buf, i, 1)]

\* const trackingKeypoints = [0, 5, 6, 11, 12]
TrackingKeypoints == <<0, 5, 6, 11, 12>>

\* Math.sqrt, exact on the squares the checked poses produce
ISqrt(n) == CHOOSE r \in 0..n : r * r <= n /\ (r + 1) * (r + 1) > n

RECURSIVE SumSeq(_)
SumSeq(q) == IF q = << >> THEN 0 ELSE Head(q) + SumSeq(Tail(q))

\* a plausible slip: movement exactly at the threshold already counts as low movement
UpdateMovementTrackingEager(st, pose, i, minC, rnd) ==
    LET last == st.last[i + 1][1]
        N == Len(TrackingKeypoints)
        Seen(n) == /\ TrackingKeypoints[n] < Len(pose)
                   /\ Trusted(Keypoint(pose, TrackingKeypoints[n]), minC)
        Cur(n) == [x |-> Keypoint(pose, TrackingKeypoints[n]).x,
                   y |-> Keypoint(pose, TrackingKeypoints[n]).y]
        Moved(n) == Seen(n) /\ last[n] # << >>
        Dist(n) == LET dx == Cur(n).x - last[n][1].x
                       dy == Cur(n).y - last[n][1].y
                   IN  ISqrt(dx * dx + dy * dy)
        totalMovement == SumSeq([n \in 1..N |-> IF Moved(n) THEN Dist(n) ELSE 0])
        validKeypoints == Cardinality({n \in 1..N : Moved(n)})
        avg == IF validKeypoints > 0
               THEN [num |-> totalMovement, den |-> validKeypoints]
               ELSE [num |-> 0, den |-> 1]
        still == avg.num < PoseMovementThreshold * avg.den
        high == avg.num > PoseMovementThreshold * 2 * avg.den
        low == ~high /\ avg.num >= PoseMovementThreshold * avg.den
        hit == (high /\ rnd.roll < 15) \/ (low /\ rnd.roll < 3)
        colors == st.colors[i + 1][1]
    IN  [st EXCEPT
            !.last[i + 1] = << [n \in 1..N |-> IF Seen(n) THEN << Cur(n) >> ELSE last[n]] >>,
            !.still[i + 1] = IF still THEN << @[1] + 16 >> ELSE << 0 >>,
            !.colors[i + 1] = IF hit THEN << [colors EXCEPT ![rnd.index + 1] = rnd.recolor] >>
                              ELSE @,
            !.moves = Append(@, [num |-> avg.num, den |-> avg.den,
                                 timer |-> IF still THEN "still" ELSE "moving",
                                 recolor |-> IF high THEN "high"
                                             ELSE IF low THEN "low" ELSE "none"])]

\* updateMovementTracking (the movement, stillness and recolor part); avgMovement is
\* kept as the fraction num / den. rnd holds the values Math.random() gives this call:
\* roll in hundredths, index = floor(random * 17), recolor = the palette colour drawn
UpdateMovementTracking(st, pose, i, minC, rnd) ==
    LET last == st.last[i + 1][1]
        N == Len(TrackingKeypoints)
        Seen(n) == /\ TrackingKeypoints[n] < Len(pose)
                   /\ Trusted(Keypoint(pose, TrackingKeypoints[n]), minC)
        Cur(n) == [x |-> Keypoint(pose, TrackingKeypoints[n]).x,
                   y |-> Keypoint(pose, TrackingKeypoints[n]).y]
        Moved(n) == Seen(n) /\ last[n] # << >>
        Dist(n) == LET dx == Cur(n).x - last[n][1].x
                       dy == Cur(n).y - last[n][1].y
                   IN  ISqrt(dx * dx + dy * dy)
        totalMovement == SumSeq([n \in 1..N |-> IF Moved(n) THEN Dist(n) ELSE 0])
        validKeypoints == Cardinality({n \in 1..N : Moved(n)})
        avg == IF validKeypoints > 0
               THEN [num |-> totalMovement, den |-> validKeypoints]
               ELSE [num |-> 0, den |-> 1]
        still == avg.num < PoseMovementThreshold * avg.den
        high == avg.num > PoseMovementThreshold * 2 * avg.den
        low == ~high /\ avg.num > PoseMovementThreshold * avg.den
        hit == (high /\ rnd.roll < 15) \/ (low /\ rnd.roll < 3)
        colors == st.colors[i + 1][1]
    IN  [st EXCEPT
            !.last[i + 1] = << [n \in 1..N |-> IF Seen(n) THEN << Cur(n) >> ELSE last[n]] >>,
            !.still[i + 1] = IF still THEN << @[1] + 16 >> ELSE << 0 >>,
            !.colors[i + 1] = IF hit THEN << [colors EXCEPT ![rnd.index + 1] = rnd.recolor] >>
                              ELSE @,
            !.moves = Append(@, [num |-> avg.num, den |-> avg.den,
                                 timer |-> IF still THEN "still" ELSE "moving",
                                 recolor |-> IF high THEN "high"
                                             ELSE IF low THEN "low" ELSE "none"])]

\* a plausible slip: high movement opens the window whether or not the hands are up
OpensWindowOnMovement(avg, handsUp, t, cooldown) ==
    \/ 10 * avg.num > PoseMovementThreshold * 13 * avg.den
    \/ handsUp /\ t - cooldown > QuietMs

\* a plausible slip: no hands-up fallback after the quiet time
OpensWindowNoFallback(avg, handsUp, t, cooldown) ==
    10 * avg.num > PoseMovementThreshold * 13 * avg.den /\ handsUp

\* (avgMovement > threshold * 1.3 && handsUp) || (handsUp && millis() - cooldown > 1000)
OpensWindow(avg, handsUp, t, cooldown) ==
    \/ 10 * avg.num > PoseMovementThreshold * 13 * avg.den /\ handsUp
    \/ handsUp /\ t - cooldown > QuietMs

\* a plausible slip: the hand flag is not toggled
FwAltStuck(alt) == alt

\* this._fwAlt = (this._fwAlt || 0) ^ 1
FwAltNext(alt) == 1 - alt

\* a plausible slip: the cadence test dropped
FiresEveryFrame(t, until, cooldown) == t < until

\* millis() < fireworksActiveUntil and millis() - fireworksCooldown > fireworksInterval
Fires(t, until, cooldown) == t < until /\ t - cooldown > FireworksInterval

\* updateMovementTracking, the fireworks trigger part: st.mode is this.paintMode, st.now
\* what millis() gives during the call, avgMovement the movement just computed.
\* rnd.crown and rnd.halo: Math.random() < 0.25 and < 0.15; rnd.decays: per burst
\* triggered, the decays of its sparks
FireworksTrigger(st, pose, i, minC, rnd) ==
    IF st.mode # "fireworks" THEN st
    ELSE IF ~(/\ Has(pose, 9) /\ Has(pose, 10) /\ Has(pose, 5) /\ Has(pose, 6)
              /\ Trusted(Keypoint(pose, 9), minC) /\ Trusted(Keypoint(pose, 10), minC)
              /\ Trusted(Keypoint(pose, 5), minC) /\ Trusted(Keypoint(pose, 6), minC))
    THEN st
    ELSE LET lw == Keypoint(pose, 9)
             rw == Keypoint(pose, 10)
             ls == Keypoint(pose, 5)
             rs == Keypoint(pose, 6)
             \* shoulderY = (ls.y + rs.y) / 2, compared doubled
             handsUp == /\ 2 * lw.y < ls.y + rs.y - 2 * ShoulderMargin
                        /\ 2 * rw.y < ls.y + rs.y - 2 * ShoulderMargin
             avg == st.moves[Len(st.moves)]
             until == IF OpensWindow(avg, handsUp, st.now, st.cooldown)
                      THEN st.now + SustainMs ELSE st.until
             alt == FwAltNext(st.alt)
             hand == IF alt = 0 THEN lw ELSE rw
             crown == Has(pose, 0) /\ Trusted(Keypoint(pose, 0), minC) /\ rnd.crown
             halo == /\ Has(pose, 11) /\ Has(pose, 12)
                     /\ Trusted(Keypoint(pose, 11), minC) /\ Trusted(Keypoint(pose, 12), minC)
                     /\ rnd.halo
             count == 1 + (IF crown THEN 1 ELSE 0) + (IF halo THEN RingCount ELSE 0)
         IN  IF Fires(st.now, until, st.cooldown)
             THEN [st EXCEPT !.until = until,
                             !.alt = alt,
                             !.cooldown = st.now,
                             !.log = Append(@, [hand |-> IF alt = 0 THEN "left" ELSE "right",
                                                pose |-> i, tick |-> st.now, until |-> until,
                                                x |-> hand.x, y |-> hand.y]),
                             !.bursts = @ \o [k \in 1..count |-> rnd.decays[k]]]
             ELSE [st EXCEPT !.until = until]

\* the keypoint loop of drawGrowingCircles from keypoint j on: ears skipped; a colour on
\* first sight (rnd.fresh); handsUpGrowth stepped once per keypoint drawn; one glow each
RECURSIVE GlowFrom(_, _, _, _, _, _, _)
GlowFrom(st, pose, i, j, handsUp, minC, rnd) ==
    IF j >= Len(pose) THEN st
    ELSE IF j = 3 \/ j = 4 \/ ~Trusted(Keypoint(pose, j), minC)
    THEN GlowFrom(st, pose, i, j + 1, handsUp, minC, rnd)
    ELSE LET colors == st.colors[i + 1][1]
             c == IF colors[j + 1] = 0 THEN rnd.fresh ELSE colors[j + 1]
             g == IF handsUp
                  THEN Min(st.growth + GrowthSpeed, MaxGrowthMultiplier)
                  ELSE (st.growth * 95) \div 100
             glow == [op |-> "glow", pose |-> i, kp |-> j,
                      x |-> Keypoint(pose, j).x, y |-> Keypoint(pose, j).y,
                      color |-> c, grown |-> handsUp, growth |-> g]
         IN  GlowFrom([st EXCEPT !.colors[i + 1] = << [colors EXCEPT ![j + 1] = c] >>,
                                 !.growth = g,
                                 !.drawn = Append(@, glow)],
                      pose, i, j + 1, handsUp, minC, rnd)

\* a plausible slip: the tracking state created for the first pose slot only
TrackingMissingInFirstSlot(st, i) == i = 0 /\ st.colors[i + 1] = << >>

\* if (!this.poseColors[poseIndex])
TrackingMissing(st, i) == st.colors[i + 1] = << >>

\* drawGrowingCircles, on the painter state st. A slot still without tracking state after
\* the test gives a TypeError at the first keypoint above the threshold that is tracked
\* or drawn (this.poseLastPositions[poseIndex][i], this.poseColors[poseIndex][j])
DrawGrowingCircles(st, pose, i, minC, rnd) ==
    LET N == Len(TrackingKeypoints)
        st1 == IF TrackingMissing(st, i)
               THEN [st EXCEPT !.colors[i + 1] = << [n \in 1..RandomIndexRange |-> 0] >>,
                               !.last[i + 1] = << [n \in 1..N |-> << >>] >>,
                               !.still[i + 1] = << 0 >>]
               ELSE st
        st2 == FireworksTrigger(UpdateMovementTracking(st1, pose, i, minC, rnd),
                                pose, i, minC, rnd)
        handsUp == CheckHandsUp(pose, minC)
        st3 == [st2 EXCEPT !.handsUp = Append(@, handsUp)]
    IN  IF st1.colors[i + 1] = << >>
        THEN [st EXCEPT !.threw = \E j \in 0..(Len(pose) - 1) :
                                    j \notin {3, 4} /\ Trusted(Keypoint(pose, j), minC)]
        ELSE IF CheckHandsUpThrows(pose, minC) THEN [st2 EXCEPT !.threw = TRUE]
        ELSE GlowFrom(st3, pose, i, 0, handsUp, minC, rnd)

\* a plausible slip: a mode the switch does not know falls back to keypoints
PaintPoseDefault(st, mode, pose, i, minC, rnd) ==
    CASE mode = "skeleton" -> DrawSkeletonOn(st, pose, i, Connections, minC)
      [] mode = "trails" -> DrawTrails(st, pose, i, minC)
      [] mode = "circles" -> DrawGrowingCircles(st, pose, i, minC, rnd)
      [] mode = "fireworks" -> DrawGrowingCircles(st, pose, i, minC, rnd)
      [] OTHER -> [st EXCEPT !.drawn = @ \o DrawKeypoints(pose, i, minC)]

\* switch (this.paintMode) for one pose
PaintPose(st, mode, pose, i, minC, rnd) ==
    CASE mode = "keypoints" -> [st EXCEPT !.drawn = @ \o DrawKeypoints(pose, i, minC)]
      [] mode = "skeleton" -> DrawSkeletonOn(st, pose, i, Connections, minC)
      [] mode = "trails" -> DrawTrails(st, pose, i, minC)
      [] mode = "circles" -> DrawGrowingCircles(st, pose, i, minC, rnd)
      [] mode = "fireworks" -> DrawGrowingCircles(st, pose, i, minC, rnd)
      [] OTHER -> st

\* the pose loop of visualize from pose n on; a TypeError ends the call
RECURSIVE VisualizeFrom(_, _, _, _, _, _)
VisualizeFrom(st, mode, poses, n, minC, rnds) ==
    IF n > Len(poses) \/ st.threw THEN st
    ELSE VisualizeFrom(PaintPose(st, mode, poses[n], n - 1, minC, rnds[n]),
                       mode, poses, n + 1, minC, rnds)

EmptySlots == [s \in 1..MaxPoses |-> << >>]

(***************************************************************************)
(* The noise particle engine: Particle, ParticleEmitter and ParticleSystem *)
(* of public/smoke-system.js and, with other constants, of the older       *)
(* src/particle-system.js ("legacy"). Particle life is in thousandths.     *)
(* Positions, velocities and noise are not modelled: no guard reads them.  *)
(***************************************************************************)
\* Particle.init: this.life = 1
ParticleLife == 1000
\* Particle.update: this.life -= 0.003, and -= 0.015 in the legacy file
ParticleDecay == 3
LegacyParticleDecay == 15
\* ParticleEmitter: emissionInterval, burstSize, minParticlesForNewBurst
EmissionInterval == 100
BurstSize == 3
MinParticlesForNewBurst == 1
LegacyEmissionInterval == 1000
LegacyBurstSize == 20
LegacyMinParticles == 10
\* ParticleSystem: maxEmitters, and the pool size the legacy initialize() passes
MaxEmitters == 3
LegacyMaxEmitters == 17
LegacyMaxParticles == 20
\* this.particleCount = 100, scaled down
ParticleCount == 4

\* new Particle(): reset()
NewParticle == [life |-> 0, active |-> FALSE]

\* Particle.init
ParticleInit == [life |-> ParticleLife, active |-> TRUE]

\* Particle.update, with the decay d of its file
ParticleUpdate(pt, d) ==
    IF ~pt.active THEN pt
    ELSE LET life == pt.life - d
         IN  [life |-> life, active |-> ~(life <= 0)]

\* new ParticleEmitter(color, maxParticles), with the constants of its file; particles
\* holds indices into particlePool
NewEmitter(maxParticles, interval, burst, minParticles) ==
    [maxParticles |-> maxParticles,
     particles |-> << >>,
     particlePool |-> [i \in 1..maxParticles |-> NewParticle],
     lastEmissionTime |-> 0,
     emissionInterval |-> interval,
     burstSize |-> burst,
     minParticlesForNewBurst |-> minParticles]

\* a plausible slip: no recycling, null once every pool particle is active
GetParticleNoRecycle(em) ==
    LET free == { i \in DOMAIN em.particlePool : ~em.particlePool[i].active }
    IN  IF free # {} THEN [em |-> em, p |-> CHOOSE i \in free : \A k \in free : i <= k]
        ELSE [em |-> em, p |-> 0]

\* getParticle: the first inactive particle of the pool; else the oldest of the list,
\* shifted out and made inactive; else null (0)
GetParticle(em) ==
    LET free == { i \in DOMAIN em.particlePool : ~em.particlePool[i].active }
    IN  IF free # {} THEN [em |-> em, p |-> CHOOSE i \in free : \A k \in free : i <= k]
        ELSE IF em.particles # << >>
        THEN [em |-> [em EXCEPT !.particles = Tail(@),
                                !.particlePool[Head(em.particles)].active = FALSE],
              p |-> Head(em.particles)]
        ELSE [em |-> em, p |-> 0]

\* the loop of emitBurst, n particles to go
RECURSIVE EmitBurstFrom(_, _)
EmitBurstFrom(em, n) ==
    IF n = 0 THEN em
    ELSE LET g == GetParticle(em)
             included == \E k \in DOMAIN g.em.particles : g.em.particles[k] = g.p
         IN  IF g.p = 0 THEN EmitBurstFrom(g.em, n - 1)
             ELSE EmitBurstFrom([g.em EXCEPT !.particlePool[g.p] = ParticleInit,
                                             !.particles = IF included THEN @
                                                           ELSE Append(@, g.p)],
                                n - 1)

\* emitBurst: Math.min(this.burstSize, 2 + Math.floor(intensity * 4)) particles
EmitBurst(em, intensity4) == EmitBurstFrom(em, Min(em.burstSize, 2 + intensity4))

\* this.particles.filter((p) => p.active).length
ActiveCount(em) ==
    Cardinality({ k \in DOMAIN em.particles : em.particlePool[em.particles[k]].active })

\* a plausible slip: the time test made inclusive
ShouldEmitInclusive(em, t) ==
    \/ t - em.lastEmissionTime >= em.emissionInterval
    \/ ActiveCount(em) <= em.minParticlesForNewBurst

\* shouldEmit
ShouldEmit(em, t) ==
    \/ t - em.lastEmissionTime > em.emissionInterval
    \/ ActiveCount(em) <= em.minParticlesForNewBurst

\* ParticleEmitter.emit while millis() gives t
Emit(em, t, intensity4) ==
    IF ShouldEmit(em, t)
    THEN [EmitBurst(em, intensity4) EXCEPT !.lastEmissionTime = t]
    ELSE em

\* ParticleEmitter.update: update the particles of the list, splice out the inactive
EmitterUpdate(em, d) ==
    LET listed == { em.particles[k] : k \in DOMAIN em.particles }
        pool2 == [i \in DOMAIN em.particlePool |->
                    IF i \in listed THEN ParticleUpdate(em.particlePool[i], d)
                    ELSE em.particlePool[i]]
        Alive(i) == pool2[i].active
    IN  [em EXCEPT !.particlePool = pool2, !.particles = SelectSeq(@, Alive)]

\* ParticleEmitter.clear
EmitterClear(em) ==
    LET listed == { em.particles[k] : k \in DOMAIN em.particles }
    IN  [em EXCEPT !.particles = << >>,
                   !.particlePool = [i \in DOMAIN @ |->
                        IF i \in listed THEN [@[i] EXCEPT !.active = FALSE] ELSE @[i]]]

\* new ParticleSystem(); calls: the emit calls of the last emitFromPose, each with the
\* emitter before and after; emits and updates count the calls made
PsConstructed(legacy) ==
    [legacy |-> legacy, initialized |-> FALSE, particleCount |-> ParticleCount,
     emitters |-> << >>, calls |-> << >>, emits |-> 0, updates |-> 0, counts |-> << >>]

\* ParticleSystem.initialize
PsInitialize(ps) ==
    IF ps.initialized THEN ps
    ELSE [ps EXCEPT
            !.emitters =
                IF ps.legacy
                THEN [i \in 1..LegacyMaxEmitters |->
                        NewEmitter(LegacyMaxParticles, LegacyEmissionInterval,
                                   LegacyBurstSize, LegacyMinParticles)]
                ELSE [i \in 1..MaxEmitters |->
                        NewEmitter(ps.particleCount, EmissionInterval, BurstSize,
                                   MinParticlesForNewBurst)],
            !.initialized = TRUE]

\* the keypoints emitFromPose visits: nose and wrists, or in the legacy file the first
\* min(keypoints, emitters) keypoints
PaintingKeypoints(ps, pose) ==
    IF ps.legacy THEN [j \in 1..Min(Len(pose), Len(ps.emitters)) |-> j - 1]
    ELSE <<0, 9, 10>>

\* Math.floor(intensity * 4) for intensity = confidence * 1.2 (1.5 in the legacy file),
\* the confidence c in hundredths
Intensity4(ps, c) == IF ps.legacy THEN (c * 6) \div 100 ELSE (c * 48) \div 1000

\* the loop of emitFromPose from the i-th visited keypoint on
RECURSIVE PsEmitFrom(_, _, _, _, _)
PsEmitFrom(ps, pose, i, t, minC) ==
    LET ks == PaintingKeypoints(ps, pose)
    IN  IF i > Len(ks) THEN ps
        ELSE IF Has(pose, ks[i]) /\ Trusted(Keypoint(pose, ks[i]), minC)
        THEN LET e == ((i - 1) % Len(ps.emitters)) + 1
                 before == ps.emitters[e]
                 after == Emit(before, t, Intensity4(ps, Keypoint(pose, ks[i]).confidence))
             IN  PsEmitFrom([ps EXCEPT !.emitters[e] = after,
                                       !.calls = Append(@, [emitter |-> e, t |-> t,
                                                            before |-> before,
                                                            after |-> after])],
                            pose, i + 1, t, minC)
        ELSE PsEmitFrom(ps, pose, i + 1, t, minC)

\* ParticleSystem.emitFromPose while millis() gives t
PsEmitted(ps, pose, t, minC) ==
    PsEmitFrom([PsInitialize(ps) EXCEPT !.calls = << >>, !.emits = @ + 1], pose, 1, t, minC)

\* ParticleSystem.update
PsUpdated(ps) ==
    IF ~ps.initialized THEN ps
    ELSE [ps EXCEPT !.emitters = [e \in DOMAIN @ |->
                        EmitterUpdate(@[e], IF ps.legacy THEN LegacyParticleDecay
                                            ELSE ParticleDecay)],
                    !.updates = @ + 1]

\* ParticleSystem.clear
PsCleared(ps) ==
    IF ~ps.initialized THEN ps
    ELSE [ps EXCEPT !.emitters = [e \in DOMAIN @ |-> EmitterClear(@[e])]]

\* ParticleSystem.setParticleCount: initialize() returns at once when initialized
PsCountSet(ps, count) ==
    LET ps1 == [ps EXCEPT !.particleCount = count, !.counts = Append(@, count)]
    IN  IF ps1.initialized THEN PsInitialize(ps1) ELSE ps1

\* particleSystem.emitFromPose(pose, connections, minConfidence), dt ms after the last
PsEmitFromPose(dt, pose) ==
    /\ focus \in {"particles", "legacy-particles"}
    /\ now' = now + dt
    /\ particleSystem' = PsEmitted(particleSystem, pose, now + dt, MinConfidence)
    /\ UNCHANGED <<focus, fwVars, sysLastEmit, seenModes, smokeLog, smokeSystem, allHandsUp, spaceKey, hexVars, mgrVars, sysVars,
                   visVars, legacyTrails, appVars>>

\* particleSystem.update()
PsUpdate ==
    /\ focus \in {"particles", "legacy-particles"}
    /\ particleSystem' = PsUpdated(particleSystem)
    /\ UNCHANGED <<focus, now, fwVars, sysLastEmit, seenModes, smokeLog, smokeSystem, allHandsUp, spaceKey, hexVars, mgrVars,
                   sysVars,
                   visVars, legacyTrails, appVars>>

\* particleSystem.clear()
PsClear ==
    /\ focus \in {"particles", "legacy-particles"}
    /\ particleSystem' = PsCleared(particleSystem)
    /\ UNCHANGED <<focus, now, fwVars, sysLastEmit, seenModes, smokeLog, smokeSystem, allHandsUp, spaceKey, hexVars, mgrVars,
                   sysVars,
                   visVars, legacyTrails, appVars>>

\* the particle-count slider: particleSystem.setParticleCount(count)
PsSetParticleCount(count) ==
    /\ focus = "particles"
    /\ particleSystem' = PsCountSet(particleSystem, count)
    /\ UNCHANGED <<focus, now, fwVars, sysLastEmit, seenModes, smokeLog, smokeSystem, allHandsUp, spaceKey, hexVars, mgrVars,
                   sysVars,
                   visVars, legacyTrails, appVars>>

(***************************************************************************)
(* SmokeSystem (public/smoke-system.js): movement tracking and sizes.      *)
(* targetSizeMultiplier is in 1/3000 (0.7 -> 2100), so that 0.3 + avg / 30 *)
(* and 0.6 + ratio * 3.5 are whole numbers; sizeMultiplier and baseSize    *)
(* are in 1/300000 (0.7 -> 210000), the 5% step rounded towards zero; a    *)
(* drawn circle's size is in 1/300 px. The wind is not modelled: it moves  *)
(* particles, and no guard reads a position.                               *)
(***************************************************************************)
\* const smokeKeypoints = [9, 10]
SmokeKeypoints == <<9, 10>>
\* this.baseMovementThreshold = 10
BaseMovementThreshold == 10
\* this.maxStillnessTime = 4000
MaxStillnessTime == 4000
\* this.smokeSize = 80
SmokeSize == 80

\* Math.sqrt(dx * dx + dy * dy), exact on the displacements the checked poses produce:
\* the root lies between the longer side and the sum of the sides
Hypot(dx, dy) ==
    LET ax == Max(dx, 0 - dx)
        ay == Max(dy, 0 - dy)
    IN  CHOOSE r \in Max(ax, ay)..(ax + ay) :
            r * r <= ax * ax + ay * ay /\ (r + 1) * (r + 1) > ax * ax + ay * ay

\* new SmokeSystem(): no last position, sizeMultiplier = targetSizeMultiplier = 0.7
SmokeConstructed ==
    [lastPositions |-> [n \in DOMAIN SmokeKeypoints |-> << >>],
     stillnessTime |-> 0,
     sizeMultiplier |-> 210000,
     targetSizeMultiplier |-> 2100,
     sizes |-> << >>,
     tracks |-> << >>,
     shown |-> << >>]

\* adjustMovementThreshold on a canvas whose sides are factor times 640 x 480:
\* baseMovementThreshold * Math.sqrt(width * height / (640 * 480))
SmokeMovementThreshold(factor) == BaseMovementThreshold * factor

\* this.lastPositions[i]
SmokeLastOf(sm, n) == sm.lastPositions[n]

\* updateMovementTracking(pose, smokeKeypoints, minConfidence) with the threshold thr:
\* the displacement of each trusted wrist from this.lastPositions[i], the stillness
\* timer and the target multiplier; the call's measurements are appended to tracks
SmokeUpdateMovementTracking(sm, pose, minC, thr) ==
    LET N == Len(SmokeKeypoints)
        Seen(n) == /\ SmokeKeypoints[n] < Len(pose)
                   /\ Trusted(Keypoint(pose, SmokeKeypoints[n]), minC)
        Cur(n) == [x |-> Keypoint(pose, SmokeKeypoints[n]).x,
                   y |-> Keypoint(pose, SmokeKeypoints[n]).y]
        Moved(n) == Seen(n) /\ SmokeLastOf(sm, n) # << >>
        Dist(n) == Hypot(Cur(n).x - SmokeLastOf(sm, n)[1].x,
                         Cur(n).y - SmokeLastOf(sm, n)[1].y)
        totalMovement == SumSeq([n \in 1..N |-> IF Moved(n) THEN Dist(n) ELSE 0])
        validKeypoints == Cardinality({n \in 1..N : Moved(n)})
        avg == IF validKeypoints > 0
               THEN [num |-> totalMovement, den |-> validKeypoints]
               ELSE [num |-> 0, den |-> 1]
        still == avg.num < thr * avg.den
        time == IF still THEN sm.stillnessTime + 16 ELSE 0
        target == IF still THEN 1800 + (Min(time, MaxStillnessTime) * 21) \div 8
                  ELSE 900 + (100 * avg.num) \div avg.den
    IN  [sm EXCEPT
            !.lastPositions = [n \in 1..N |-> IF Seen(n) THEN << Cur(n) >> ELSE @[n]],
            !.stillnessTime = time,
            !.targetSizeMultiplier = target,
            !.tracks = Append(@, [num |-> avg.num, den |-> avg.den, thr |-> thr,
                                  against |-> [n \in 1..N |-> IF Moved(n) THEN SmokeLastOf(sm, n)
                                                              ELSE << >>],
                                  timeBefore |-> sm.stillnessTime,
                                  targetBefore |-> sm.targetSizeMultiplier,
                                  target |-> target,
                                  sizeBefore |-> sm.sizeMultiplier,
                                  size |-> sm.sizeMultiplier])]

\* this.sizeMultiplier += (this.targetSizeMultiplier - this.sizeMultiplier) * 0.05,
\* then capped at 4.5
SmokeSmoothed(sm) ==
    LET d == sm.targetSizeMultiplier * 100 - sm.sizeMultiplier
        step == IF d >= 0 THEN d \div 20 ELSE 0 - ((0 - d) \div 20)
        size == Min(sm.sizeMultiplier + step, 1350000)
    IN  [sm EXCEPT !.sizeMultiplier = size, !.tracks[Len(sm.tracks)].size = size]

\* emitFromPose, the part before the emission loop, and the baseSize of the particles
\* the loop pushed (const dynamicSize = this.smokeSize * this.sizeMultiplier)
SmokeTracked(sm, pose, minC, factor, pushed) ==
    LET sm1 == SmokeSmoothed(SmokeUpdateMovementTracking(sm, pose, minC,
                                                         SmokeMovementThreshold(factor)))
    IN  [sm1 EXCEPT !.sizes = @ \o [k \in 1..pushed |-> SmokeSize * sm1.sizeMultiplier]]

\* SmokeParticle.show on a particle of the given baseSize and lifespan:
\* Math.min(this.baseSize * (0.4 + lifeRatio * 1.2), 60)
SmokeShowSize(baseSize, lifespan) ==
    Min(((baseSize \div 1000) * (100 + 3 * lifespan)) \div 250, 60 * 300)

InitVis ==
    /\ paintMode = "keypoints"
    /\ poseTrails = EmptySlots
    /\ poseColors = EmptySlots
    /\ poseLastPositions = EmptySlots
    /\ poseStillnessTime = EmptySlots
    /\ handsUpGrowth = 0
    /\ drawn = << >>
    /\ frame = [count |-> 0, poses |-> << >>, handsUp |-> << >>, moves |-> << >>,
                mode |-> ""]
    /\ trailPushes = [s \in 1..MaxPoses |-> 0]
    /\ legacyTrails = EmptySlots
    /\ isCameraActive = FALSE
    /\ isPresentationMode = FALSE
    /\ sysEnabled = TRUE
    /\ smokeParticles = << >>
    /\ now = 0
    /\ threw = FALSE
    /\ fireworksActiveUntil = 0
    /\ fireworksCooldown = 0
    /\ fwAlt = 0
    /\ fwLog = << >>
    /\ sysLastEmit = 0
    /\ seenModes = [emit |-> "", update |-> ""]
    /\ particleSystem = PsConstructed(focus = "legacy-particles")
    /\ smokeLog = [op |-> "", before |-> << >>, asked |-> 0, emits |-> 0]
    /\ smokeSystem = SmokeConstructed
    /\ allHandsUp = [time |-> 0, calls |-> 0, poses |-> << >>, returned |-> FALSE, streak |-> 0]
    /\ spaceKey = [count |-> 0, mode |-> "", enabled |-> TRUE, bursts |-> 0]

\* setMode(mode)
SetMode(mode) ==
    /\ focus = "visualizer"
    /\ paintMode # mode
    /\ paintMode' = mode
    /\ UNCHANGED <<focus, extVars, hexVars, mgrVars, sysVars, poseTrails, poseColors,
                   poseLastPositions, poseStillnessTime, handsUpGrowth, drawn, frame,
                   trailPushes, legacyTrails, appVars>>

\* visualize(poses, connections, minConfidence) with this.paintMode = mode while
\* millis() gives t: the per-pose painting of the mode, then the firework overlay's
\* updateAndDraw (not reached when the painting threw)
DoVisualize(mode, poses, rnds, t) ==
    LET st0 == [trails |-> poseTrails, colors |-> poseColors, last |-> poseLastPositions,
                still |-> poseStillnessTime, growth |-> handsUpGrowth, drawn |-> << >>,
                pushes |-> trailPushes, handsUp |-> << >>, moves |-> << >>,
                mode |-> mode, now |-> t, until |-> fireworksActiveUntil,
                cooldown |-> fireworksCooldown, alt |-> fwAlt, log |-> fwLog,
                bursts |-> << >>, threw |-> FALSE]
    IN  \E st \in { VisualizeFrom(st0, mode, poses, 1, MinConfidence, rnds) } :
           /\ poseTrails' = st.trails
           /\ poseColors' = st.colors
           /\ poseLastPositions' = st.last
           /\ poseStillnessTime' = st.still
           /\ handsUpGrowth' = st.growth
           /\ drawn' = st.drawn
           /\ trailPushes' = st.pushes
           /\ frame' = [count |-> frame.count + 1, poses |-> poses,
                        handsUp |-> st.handsUp, moves |-> st.moves, mode |-> mode]
           /\ threw' = st.threw
           /\ fireworksActiveUntil' = st.until
           /\ fireworksCooldown' = st.cooldown
           /\ fwAlt' = st.alt
           /\ fwLog' = st.log
           /\ LET pushed == mgrFireworks \o
                      [k \in DOMAIN st.bursts |-> MgrNewFirework(st.bursts[k], mgrTriggers + k)]
                  upd == [k \in DOMAIN pushed |-> MgrFireworkUpdate(pushed[k])]
                  Dead(f)  == FireworkIsDead(f)
                  Alive(f) == ~FireworkIsDead(f)
              IN  /\ mgrFireworks' = IF st.threw THEN pushed ELSE SelectSeq(upd, Alive)
                  /\ mgrPurged' = IF st.threw THEN mgrPurged ELSE SelectSeq(upd, Dead)
                  /\ mgrTriggers' = mgrTriggers + Len(st.bursts)
                  /\ mgrSince' = IF st.threw THEN (IF st.bursts # << >> THEN 0 ELSE mgrSince)
                                 ELSE IF st.bursts # << >> THEN 1
                                 ELSE IF mgrTriggers > 0 THEN Min(mgrSince + 1, LifeBound + 1)
                                 ELSE mgrSince

\* poseVisualizer.visualize(poses, connections, minConfidence), dt ms after the last frame
VisualizeAt(dt, poses, rnds) ==
    /\ focus = "visualizer"
    /\ now' = now + dt
    /\ DoVisualize(paintMode, poses, rnds, now + dt)
    /\ UNCHANGED <<focus, hexVars, sysVars, paintMode, legacyTrails, appVars,
                   sysLastEmit, seenModes, particleSystem, smokeLog, smokeSystem, allHandsUp, spaceKey>>

\* the same, one 60 fps frame after the last
Visualize(poses, rnds) == VisualizeAt(FrameMs, poses, rnds)

\* this.handsUpThreshold = 48
HandsUpThreshold == 48

\* if (this.allHandsUpTime >= this.handsUpThreshold)
AllHandsUpLongEnough(time) == time >= HandsUpThreshold

\* checkAllHandsUp(poses, minConfidence): nothing for an empty list; the timer gains 16
\* when every pose has its hands up and is reset otherwise
CheckAllHandsUp(poses) ==
    /\ focus = "visualizer"
    /\ LET allUp == \A n \in DOMAIN poses : CheckHandsUp(poses[n], MinConfidence)
           time == IF poses = << >> THEN allHandsUp.time
                   ELSE IF allUp THEN allHandsUp.time + 16 ELSE 0
       IN  allHandsUp' = [time |-> time,
                          calls |-> allHandsUp.calls + 1,
                          poses |-> poses,
                          returned |-> poses # << >> /\ allUp /\ AllHandsUpLongEnough(time),
                          streak |-> IF poses # << >> /\ allUp THEN allHandsUp.streak + 1
                                     ELSE 0]
    /\ UNCHANGED <<focus, now, fwVars, sysLastEmit, seenModes, particleSystem, smokeLog,
                   smokeSystem, spaceKey, hexVars, mgrVars, sysVars, visVars, legacyTrails,
                   appVars>>

\* clearTrails
ClearTrails ==
    /\ focus = "visualizer"
    /\ poseTrails' = EmptySlots
    /\ trailPushes' = [s \in 1..MaxPoses |-> 0]
    /\ UNCHANGED <<focus, extVars, hexVars, mgrVars, sysVars, paintMode, poseColors,
                   poseLastPositions, poseStillnessTime, handsUpGrowth, drawn, frame,
                   legacyTrails, appVars>>

\* clearPoseTracking
ClearPoseTracking ==
    /\ focus = "visualizer"
    /\ poseColors' = EmptySlots
    /\ poseLastPositions' = EmptySlots
    /\ poseStillnessTime' = EmptySlots
    /\ mgrFireworks' = << >>
    /\ mgrPurged' = << >>
    /\ UNCHANGED <<focus, extVars, hexVars, mgrSince, mgrTriggers, sysVars, paintMode, poseTrails,
                   handsUpGrowth, drawn, frame, trailPushes, legacyTrails, appVars>>

(***************************************************************************)
(* The legacy sketch (src/sketch.js): paintOnCanvas in trails mode         *)
(***************************************************************************)
\* paintTrailsOnCanvas, on the painter state st
PaintTrailsOnCanvas(st, pose, i, minC) ==
    LET seq == st.pushes[i + 1] + 1
        buf == PushCapped(st.trails[i + 1], Snapshot(pose, minC, seq), LegacyTrailCap)
    IN  [st EXCEPT !.trails[i + 1] = buf,
                   !.pushes[i + 1] = seq,
                   !.drawn = @ \o TrailDraws(buf, i, 1)]

RECURSIVE LegacyPaintFrom(_, _, _, _)
LegacyPaintFrom(st, poses, n, minC) ==
    IF n > Len(poses) THEN st
    ELSE LegacyPaintFrom(PaintTrailsOnCanvas(st, poses[n], n - 1, minC), poses, n + 1, minC)

\* paintOnCanvas with paintMode "trails"
LegacyPaintOnCanvas(poses) ==
    /\ focus = "legacy"
    /\ LET st0 == [trails |-> legacyTrails, drawn |-> << >>, pushes |-> trailPushes]
       IN  \E st \in { LegacyPaintFrom(st0, poses, 1, MinConfidence) } :
           /\ legacyTrails' = st.trails
           /\ drawn' = st.drawn
           /\ trailPushes' = st.pushes
    /\ frame' = [count |-> frame.count + 1, poses |-> poses,
                 handsUp |-> << >>, moves |-> << >>, mode |-> "trails"]
    /\ UNCHANGED <<focus, extVars, hexVars, mgrVars, sysVars, paintMode, poseTrails, poseColors,
                   poseLastPositions, poseStillnessTime, handsUpGrowth, appVars>>

(***************************************************************************)
(* Specifications                                                          *)
(***************************************************************************)
InitSpecHex ==
    /\ focus = "hex"
    /\ hexIn \in HexInputs
    /\ hexOut = << >>
    /\ InitMgr
    /\ InitSys
    /\ InitVis

SpecHex == InitSpecHex /\ [][ConvertHex]_vars

InitBurst ==
    /\ focus \in {"manager", "system"}
    /\ InitHex
    /\ InitMgr
    /\ InitSys
    /\ InitVis

NextBurst == MgrTrigger \/ MgrUpdateAndDraw \/ SysTrigger \/ SysUpdateAndDraw

SpecBurst == InitBurst /\ [][NextBurst]_vars

(***************************************************************************)
(* The frame loop of public/sketch.js: draw() with the camera on, the mode *)
(* selector, the space key and the presentation toggle. Of the SmokeSystem *)
(* the particles' lifespans are modelled; the noise particle engine is not *)
(* driven (no run selects "particles").                                    *)
(***************************************************************************)
\* this.lifespan = 100.0
SmokeLifespan == 100
\* this.maxParticles = 300, scaled down
MaxSmokeParticles == 3

\* a plausible slip: the cap test made inclusive
RECURSIVE SmokeEmitFromPoseOverCap(_, _, _, _)
SmokeEmitFromPoseOverCap(particles, pose, i, minC) ==
    IF i > Len(SmokeKeypoints) THEN particles
    ELSE LET j == SmokeKeypoints[i]
             emits == /\ j < Len(pose)
                      /\ Trusted(Keypoint(pose, j), minC)
                      /\ Len(particles) <= MaxSmokeParticles
         IN  SmokeEmitFromPoseOverCap(IF emits THEN Append(particles, SmokeLifespan)
                                      ELSE particles,
                                      pose, i + 1, minC)

\* SmokeSystem.emitFromPose: one particle per smoke keypoint above the threshold,
\* while there is room
RECURSIVE SmokeEmitFromPose(_, _, _, _)
SmokeEmitFromPose(particles, pose, i, minC) ==
    IF i > Len(SmokeKeypoints) THEN particles
    ELSE LET j == SmokeKeypoints[i]
             emits == /\ j < Len(pose)
                      /\ Trusted(Keypoint(pose, j), minC)
                      /\ Len(particles) < MaxSmokeParticles
         IN  SmokeEmitFromPose(IF emits THEN Append(particles, SmokeLifespan) ELSE particles,
                               pose, i + 1, minC)

RECURSIVE SmokeEmitAll(_, _, _)
SmokeEmitAll(particles, poses, n) ==
    IF n > Len(poses) THEN particles
    ELSE SmokeEmitAll(SmokeEmitFromPose(particles, poses[n], 1, MinConfidence), poses, n + 1)

\* SmokeParticle.isDead
SmokeIsDead(lifespan) == lifespan < 0

\* SmokeSystem.run: every particle's lifespan -= 2, then the dead are filtered out
SmokeRun(particles) ==
    LET upd == [i \in DOMAIN particles |-> particles[i] - 2]
        Alive(l) == ~SmokeIsDead(l)
    IN  SelectSeq(upd, Alive)

\* SmokeSystem.run on the sizes: every particle is drawn after its update, and the
\* baseSize of the particles the filter keeps stays
SmokeRan(sm, particles) ==
    LET upd == [i \in DOMAIN particles |-> particles[i] - 2]
        Kept(i) == ~SmokeIsDead(upd[i])
        keep == SelectSeq([i \in DOMAIN particles |-> i], Kept)
    IN  [sm EXCEPT !.sizes = [k \in DOMAIN keep |-> sm.sizes[keep[k]]],
                   !.shown = [i \in DOMAIN particles |->
                                 [baseSize |-> sm.sizes[i], lifespan |-> upd[i],
                                  size |-> SmokeShowSize(sm.sizes[i], upd[i])]]]

\* for (let pose of poses) smokeSystem.emitFromPose(scaledPose, minConfidence), on the
\* tracking state and the sizes
RECURSIVE SmokeTrackAll(_, _, _, _, _)
SmokeTrackAll(sm, particles, poses, n, factor) ==
    IF n > Len(poses) THEN sm
    ELSE LET after == SmokeEmitFromPose(particles, poses[n], 1, MinConfidence)
         IN  SmokeTrackAll(SmokeTracked(sm, poses[n], MinConfidence, factor,
                                        Len(after) - Len(particles)),
                           after, poses, n + 1, factor)

\* the smoke keypoints of the pose that are above the threshold
SmokeAsked(pose, minC) ==
    Cardinality({ i \in DOMAIN SmokeKeypoints :
                    /\ SmokeKeypoints[i] < Len(pose)
                    /\ Trusted(Keypoint(pose, SmokeKeypoints[i]), minC) })

\* smokeSystem.emitFromPose(pose, minConfidence) on a canvas of factor times 640 x 480
SmokeEmitOn(factor, pose) ==
    /\ focus = "smoke"
    /\ smokeParticles' = SmokeEmitFromPose(smokeParticles, pose, 1, MinConfidence)
    /\ smokeSystem' = SmokeTrackAll([smokeSystem EXCEPT !.tracks = << >>, !.shown = << >>],
                                    smokeParticles, << pose >>, 1, factor)
    /\ smokeLog' = [op |-> "emit", before |-> smokeParticles,
                    asked |-> SmokeAsked(pose, MinConfidence), emits |-> smokeLog.emits + 1]
    /\ UNCHANGED <<focus, now, fwVars, sysLastEmit, seenModes, particleSystem, allHandsUp, spaceKey,
                   hexVars, mgrVars, sysVars, visVars, legacyTrails, isCameraActive,
                   isPresentationMode, sysEnabled>>

\* the same on the 640 x 480 canvas
SmokeEmit(pose) == SmokeEmitOn(1, pose)

\* smokeSystem.run()
SmokeRunAll ==
    /\ focus = "smoke"
    /\ smokeParticles' = SmokeRun(smokeParticles)
    /\ smokeSystem' = SmokeRan(smokeSystem, smokeParticles)
    /\ smokeLog' = [smokeLog EXCEPT !.op = "run", !.before = smokeParticles, !.asked = 0]
    /\ UNCHANGED <<focus, now, fwVars, sysLastEmit, seenModes, particleSystem, allHandsUp, spaceKey,
                   hexVars, mgrVars, sysVars, visVars, legacyTrails, isCameraActive,
                   isPresentationMode, sysEnabled>>

\* smokeSystem.clear()
SmokeClear ==
    /\ focus = "smoke"
    /\ smokeParticles' = << >>
    /\ smokeSystem' = SmokeConstructed
    /\ smokeLog' = [smokeLog EXCEPT !.op = "clear", !.before = smokeParticles, !.asked = 0]
    /\ UNCHANGED <<focus, now, fwVars, sysLastEmit, seenModes, particleSystem, allHandsUp, spaceKey,
                   hexVars, mgrVars, sysVars, visVars, legacyTrails, isCameraActive,
                   isPresentationMode, sysEnabled>>

\* this.emitInterval = 50
EmitInterval == 50

\* the keypoint loop of FireworksSystem.emitFromPose from keypoint j on: one trigger per
\* keypoint above the threshold; decays holds the spark decays of the bursts to come
RECURSIVE SysEmitFrom(_, _, _, _, _)
SysEmitFrom(ss, pose, j, minC, decays) ==
    IF j >= Len(pose) THEN ss
    ELSE IF Trusted(Keypoint(pose, j), minC)
    THEN SysEmitFrom(SysTriggered(ss, Head(decays)), pose, j + 1, minC, Tail(decays))
    ELSE SysEmitFrom(ss, pose, j + 1, minC, decays)

\* the number of keypoints of a pose above the threshold
TrustedCount(pose, minC) == Cardinality({ j \in 0..(Len(pose) - 1) : Trusted(Keypoint(pose, j), minC) })

\* a plausible slip: the interval test dropped
SysEmitFromPoseUnthrottled(e, pose, enabled, t, minC) ==
    IF ~enabled THEN e
    ELSE [ss |-> SysEmitFrom(e.ss, pose, 0, minC, e.decays),
          lastEmit |-> t,
          decays |-> SubSeq(e.decays, TrustedCount(pose, minC) + 1, Len(e.decays))]

\* FireworksSystem.emitFromPose while millis() gives t, on e = the system, its lastEmit
\* and the decays to come: nothing unless enabled and emitInterval has passed
SysEmitFromPose(e, pose, enabled, t, minC) ==
    IF ~enabled \/ t - e.lastEmit < EmitInterval THEN e
    ELSE [ss |-> SysEmitFrom(e.ss, pose, 0, minC, e.decays),
          lastEmit |-> t,
          decays |-> SubSeq(e.decays, TrustedCount(pose, minC) + 1, Len(e.decays))]

\* for (let pose of poses) fireworksSystem.emitFromPose(scaledPose, minConfidence)
RECURSIVE SysEmitPoses(_, _, _, _, _)
SysEmitPoses(e, poses, n, enabled, t) ==
    IF n > Len(poses) THEN e
    ELSE SysEmitPoses(SysEmitFromPose(e, poses[n], enabled, t, MinConfidence),
                      poses, n + 1, enabled, t)

\* fireworksSystem.emitFromPose(pose, minConfidence), dt ms after the last call
SysEmit(dt, pose, decays) ==
    /\ focus = "system"
    /\ now' = now + dt
    /\ \E e \in { SysEmitFromPose([ss |-> SysState, lastEmit |-> sysLastEmit,
                                     decays |-> decays],
                                    pose, sysEnabled, now + dt, MinConfidence) } :
          /\ SetSys(e.ss)
          /\ sysLastEmit' = e.lastEmit
    /\ UNCHANGED <<focus, fwVars, seenModes, particleSystem, smokeLog, smokeSystem, allHandsUp, spaceKey, hexVars, mgrVars, visVars,
                   legacyTrails, appVars>>

\* handlePresentationMode: the mode after it
HandlePresentationMode(mode, personCount) ==
    IF mode = "fireworks" THEN mode
    ELSE IF personCount = 1 THEN "smoke"
    ELSE IF personCount > 1 THEN "circles"
    ELSE mode

\* handleModeSwitching in presentation mode: the mode after it
\* a plausible slip: fireworks abandoned for any number of people
HandleModeSwitchingAnyCount(mode, personCount) ==
    IF mode = "fireworks" /\ personCount >= 1 THEN "smoke" ELSE mode

HandleModeSwitching(mode, personCount) ==
    IF mode = "fireworks" /\ personCount = 1 THEN "smoke" ELSE mode

\* a plausible slip: handleModeSwitching called before updateParticles
DrawModesSwitchEarly(mode, presentation, personCount) ==
    LET m1 == IF presentation THEN HandlePresentationMode(mode, personCount) ELSE mode
        m2 == IF presentation THEN HandleModeSwitching(m1, personCount) ELSE m1
    IN  [emit |-> m1, update |-> m2, end |-> m2]

\* poseVisualizer.paintMode along one draw(): handlePresentationMode sets it, then
\* paintOnCanvas reads it (emit), updateParticles reads it (update), and
\* handleModeSwitching sets it (end); no handler runs in between
DrawModes(mode, presentation, personCount) ==
    LET m1 == IF presentation THEN HandlePresentationMode(mode, personCount) ELSE mode
        atEmit == m1
        atUpdate == m1
        m2 == IF presentation THEN HandleModeSwitching(atUpdate, personCount) ELSE atUpdate
    IN  [emit |-> atEmit, update |-> atUpdate, end |-> m2]

\* toggleCamera
\* draw() while the camera is stopped: the background and the "Camera Stopped" text only;
\* poses stays the list of the last frame before detectStop
DrawStopped(dt) ==
    /\ focus = "app"
    /\ ~isCameraActive
    /\ now' = now + dt
    /\ frame' = [count |-> frame.count + 1, poses |-> frame.poses, handsUp |-> << >>,
                 moves |-> << >>, mode |-> paintMode]
    /\ drawn' = << >>
    /\ UNCHANGED <<focus, fwVars, sysLastEmit, seenModes, particleSystem, smokeLog, smokeSystem,
                   allHandsUp, spaceKey, hexVars, mgrVars, sysVars, paintMode, poseTrails, poseColors,
                   poseLastPositions, poseStillnessTime, handsUpGrowth, trailPushes,
                   legacyTrails, appVars>>

ToggleCamera ==
    /\ focus = "app"
    /\ isCameraActive' = ~isCameraActive
    /\ UNCHANGED <<focus, extVars, hexVars, mgrVars, sysVars, visVars, legacyTrails,
                   isPresentationMode, sysEnabled, smokeParticles>>

\* togglePresentationMode
TogglePresentationMode ==
    /\ focus = "app"
    /\ isPresentationMode' = ~isPresentationMode
    /\ UNCHANGED <<focus, extVars, hexVars, mgrVars, sysVars, visVars, legacyTrails,
                   isCameraActive, sysEnabled, smokeParticles>>

\* the paint-mode selector's change handler
SelectPaintMode(mode) ==
    /\ focus = "app"
    /\ paintMode # mode
    /\ paintMode' = mode
    /\ UNCHANGED <<focus, extVars, hexVars, mgrVars, sysVars, poseTrails, poseColors,
                   poseLastPositions, poseStillnessTime, handsUpGrowth, drawn, frame,
                   trailPushes, legacyTrails, appVars>>

\* the keydown handler on Space
\* a plausible slip: the key refused in fireworks mode only
SpaceSwitchesOutsideFireworks(mode) == mode # "fireworks"

\* if (poseVisualizer.paintMode === "circles")
SpaceSwitches(mode) == mode = "circles"

\* setMode("fireworks"); setEnabled(true), which resets lastEmit; clear()
SpaceSwitch ==
    /\ paintMode' = "fireworks"
    /\ sysEnabled' = TRUE
    /\ sysLastEmit' = 0
    /\ sysFireworks' = << >>

SpaceRest ==
    UNCHANGED <<focus, now, fwVars, seenModes, particleSystem, smokeLog, smokeSystem,
                allHandsUp, hexVars, mgrVars, pool, cursor, sysPurged, sysSince, gets,
                poseTrails, poseColors, poseLastPositions, poseStillnessTime,
                handsUpGrowth, drawn, frame, trailPushes, legacyTrails,
                isCameraActive, isPresentationMode, smokeParticles>>

\* the Space keydown that finds circles mode
PressSpace ==
    /\ focus = "app"
    /\ SpaceSwitches(paintMode)
    /\ SpaceSwitch
    /\ UNCHANGED spaceKey
    /\ SpaceRest

\* the Space keydown handler in whatever mode it finds
KeydownSpace ==
    /\ focus = "app"
    /\ spaceKey' = [count |-> spaceKey.count + 1, mode |-> paintMode,
                    enabled |-> sysEnabled, bursts |-> Len(sysFireworks)]
    /\ IF SpaceSwitches(paintMode)
       THEN SpaceSwitch
       ELSE UNCHANGED <<paintMode, sysEnabled, sysLastEmit, sysFireworks>>
    /\ SpaceRest

\* for (let pose of poses) particleSystem.emitFromPose(scaledPose, connections, minConfidence)
RECURSIVE PsEmitPoses(_, _, _, _)
PsEmitPoses(ps, poses, n, t) ==
    IF n > Len(poses) THEN ps
    ELSE PsEmitPoses(PsEmitted(ps, poses[n], t, MinConfidence), poses, n + 1, t)

\* a plausible slip: updateParticles runs every engine in every frame
UpdatesEngineAlways(mode, engine) == TRUE

\* updateParticles: if (poseVisualizer.paintMode === engine)
UpdatesEngine(mode, engine) == mode = engine

\* draw() with the camera active, dt ms after the last frame: handlePresentationMode,
\* paintOnCanvas, updateParticles, handleModeSwitching
Draw(poses, dt, decays, rnds) ==
    /\ focus = "app"
    /\ isCameraActive
    /\ now' = now + dt
    /\ LET n == Len(poses)
           t == now + dt
           modes == DrawModes(paintMode, isPresentationMode, n)
           \* paintOnCanvas
           e0 == [ss |-> SysState, lastEmit |-> sysLastEmit, decays |-> decays]
           e1 == IF n > 0 /\ modes.emit = "fireworks"
                 THEN SysEmitPoses(e0, poses, 1, sysEnabled, t) ELSE e0
           smoke1 == IF n > 0 /\ modes.emit = "smoke"
                     THEN SmokeEmitAll(smokeParticles, poses, 1) ELSE smokeParticles
           track1 == IF modes.emit = "smoke"
                     THEN SmokeTrackAll([smokeSystem EXCEPT !.tracks = << >>, !.shown = << >>],
                                        smokeParticles, poses, 1, 1)
                     ELSE smokeSystem
           ps1 == IF n > 0 /\ modes.emit = "particles"
                  THEN PsEmitPoses(particleSystem, poses, 1, t) ELSE particleSystem
           sys1 == e1.ss
           paints == n > 0 /\ modes.emit \notin {"particles", "fireworks", "smoke"}
           \* updateParticles
           ps2 == IF UpdatesEngine(modes.update, "particles") THEN PsUpdated(ps1) ELSE ps1
           smoke2 == IF UpdatesEngine(modes.update, "smoke") THEN SmokeRun(smoke1) ELSE smoke1
           track2 == IF UpdatesEngine(modes.update, "smoke") THEN SmokeRan(track1, smoke1)
                     ELSE track1
           sys2 == IF UpdatesEngine(modes.update, "fireworks") THEN SysUpdated(sys1) ELSE sys1
           \* handleModeSwitching
           back == isPresentationMode /\ modes.update = "fireworks" /\ n = 1
       IN  /\ paintMode' = modes.end
           /\ seenModes' = [emit |-> modes.emit, update |-> modes.update]
           /\ sysEnabled' = IF back THEN FALSE ELSE sysEnabled
           /\ sysLastEmit' = e1.lastEmit
           /\ SetSys(IF back THEN SysCleared(sys2) ELSE sys2)
           /\ smokeParticles' = smoke2
           /\ smokeSystem' = track2
           /\ particleSystem' = ps2
           /\ IF paints
              THEN DoVisualize(modes.emit, poses, rnds, t)
              ELSE /\ frame' = [count |-> frame.count + 1, poses |-> poses,
                                handsUp |-> << >>, moves |-> << >>, mode |-> modes.emit]
                   /\ drawn' = << >>
                   /\ UNCHANGED <<mgrVars, poseTrails, poseColors, poseLastPositions,
                                  poseStillnessTime, handsUpGrowth, trailPushes, fwVars>>
    /\ UNCHANGED <<focus, smokeLog, allHandsUp, spaceKey, hexVars, legacyTrails, isCameraActive,
                   isPresentationMode>>

\* the frames a run feeds: up to MaxPoses poses, each from the set P
Frames(P) == UNION { [1..n -> P] : n \in 0..MaxPoses }

\* the values Math.random() gives when no branch reads them
NoRandom(poses) == [n \in DOMAIN poses |-> [roll |-> 99, index |-> 0, recolor |-> 1, fresh |-> 1]]

\* trails: the pose in slot s - 1 walks one step each time it is painted; most steps show
\* two keypoints above the threshold, every third one keypoint above it and the others
\* exactly at it, every fifth none
WalkPose(s, step) ==
    MkPose(step + 100 * s, 0, 150, 150,
           IF step % 5 = 4 THEN ConfAll(5)
           ELSE IF step % 3 = 2 THEN ConfOnly({0}, 90, MinConfidence)
           ELSE ConfOnly({0, 9}, 90, 5))
WalkFrame(n) == [s \in 1..n |-> WalkPose(s, trailPushes[s] + 1)]
\* a run feeds this many frames beyond the cap
ExtraFrames == 5

InitTrails ==
    /\ focus \in {"visualizer", "legacy"}
    /\ InitHex
    /\ InitMgr
    /\ InitSys
    /\ InitVis

NextTrails ==
    \/ SetMode("trails")
    \/ \E n \in 0..MaxPoses :
            /\ frame.count < TrailCap + ExtraFrames
            /\ Visualize(WalkFrame(n), NoRandom(WalkFrame(n)))
    \/ ClearTrails
    \/ \E n \in 0..MaxPoses :
            /\ frame.count < LegacyTrailCap + ExtraFrames
            /\ LegacyPaintOnCanvas(WalkFrame(n))

SpecTrails == InitTrails /\ [][NextTrails]_vars

\* the pose in slot s - 1 stands 100 to the right of the pose in the slot before
Standing(s, conf) == MkPose(100 * s, 0, 150, 150, conf)

\* drawing: all keypoints exactly at the threshold, one side of the body well above it
\* and the rest below, and some keypoints just above it with the rest at it
DrawConfs ==
    { ConfAll(MinConfidence), ConfOnly({0, 5, 7, 9, 11}, 90, 5),
      ConfOnly({1, 3, 6, 8, 12}, MinConfidence + 1, MinConfidence) }
\* a drawing run paints this many frames
MaxDrawFrames == 1

InitPainter ==
    /\ focus = "visualizer"
    /\ InitHex
    /\ InitMgr
    /\ InitSys
    /\ InitVis

NextDraw ==
    \/ \E mode \in {"keypoints", "skeleton", "circles"} : SetMode(mode)
    \/ \E n \in 0..MaxPoses : \E confs \in [1..n -> DrawConfs] :
        \E fresh \in {1, PaletteSize} :
            /\ frame.count < MaxDrawFrames
            /\ Visualize([s \in 1..n |-> Standing(s, confs[s])],
                         [s \in 1..n |-> [roll |-> 99, index |-> 0, recolor |-> 1,
                                          fresh |-> fresh]])
    \/ ClearPoseTracking

SpecDraw == InitPainter /\ [][NextDraw]_vars

\* growth: every keypoint above the threshold, both wrists above the nose or both below
HandsUpPose(s) == MkPose(100 * s, 0, 50, 50, ConfAll(90))
HandsDownPose(s) == MkPose(100 * s, 0, 150, 150, ConfAll(90))
\* a growth run paints this many frames
MaxGrowthFrames == 5

NextGrowth ==
    \/ SetMode("circles")
    \/ \E n \in 0..MaxPoses : \E up \in [1..n -> BOOLEAN] :
            /\ frame.count < MaxGrowthFrames
            /\ Visualize([s \in 1..n |-> IF up[s] THEN HandsUpPose(s) ELSE HandsDownPose(s)],
                         NoRandom(up))

SpecGrowth == InitPainter /\ [][NextGrowth]_vars

\* pose slots: frames with any number of people up to MaxPoses, painted as trails or as
\* circles, with the trails and the tracking state cleared in between
MaxSlotFrames == 3

NextSlots ==
    \/ \E mode \in {"trails", "circles"} : SetMode(mode)
    \/ \E n \in 0..MaxPoses :
            /\ frame.count < MaxSlotFrames
            /\ Visualize([s \in 1..n |-> HandsDownPose(s)], NoRandom([s \in 1..n |-> s]))
    \/ (frame.count > 0 /\ ClearTrails)
    \/ (frame.count > 0 /\ ClearPoseTracking)

SpecSlots == InitPainter /\ [][NextSlots]_vars

\* checkAllHandsUp called frame after frame on lists of people with hands up or down
MaxHandsCalls == 7

AllHandsFrames ==
    {<< >>} \cup
    UNION {[1..n -> BOOLEAN] : n \in 1..MaxPoses}

AllHandsPoses(ups) == [s \in DOMAIN ups |-> IF ups[s] THEN HandsUpPose(s) ELSE HandsDownPose(s)]

NextAllHands ==
    \E ups \in AllHandsFrames :
        /\ allHandsUp.calls < MaxHandsCalls
        /\ CheckAllHandsUp(AllHandsPoses(ups))

SpecAllHands == InitPainter /\ [][NextAllHands]_vars

\* hands up: nose and wrists at every confidence around the threshold, the wrists above,
\* level with and below the nose; the other keypoints below the threshold
AroundThreshold == {5, MinConfidence, 90}
HandsPoses ==
    { MkPose(0, 0, lwy, rwy,
             [n \in 1..Len(BaseX) |->
                 IF n = 1 THEN nc ELSE IF n = 10 THEN lc ELSE IF n = 11 THEN rc ELSE 5]) :
        nc \in AroundThreshold, lc \in AroundThreshold, rc \in AroundThreshold,
        lwy \in {50, 100, 150}, rwy \in {50, 100, 150} }
\* a hands-up run paints this many frames
MaxHandsFrames == 1

NextHands ==
    \/ SetMode("circles")
    \/ \E pose \in HandsPoses :
            /\ frame.count < MaxHandsFrames
            /\ Visualize(<< pose >>, NoRandom(<< pose >>))

SpecHands == InitPainter /\ [][NextHands]_vars

\* movement: the body moved as a whole, so that consecutive frames are 0, 1, 2, 14, 15,
\* 16, 17, 31 apart (15 also as the diagonal of 9 and 12); every keypoint above the
\* threshold, or only the nose and one shoulder
MoveOffsets == { <<0, 0>>, <<14, 0>>, <<15, 0>>, <<9, 12>>, <<16, 0>>, <<31, 0>> }
MovePoses ==
    { MkPose(o[1], o[2], 150, 150, conf) :
        o \in MoveOffsets, conf \in { ConfAll(90), ConfOnly({0, 5}, 90, 5) } }
MoveRandoms ==
    { [roll |-> r, index |-> i, recolor |-> 2, fresh |-> 1] : r \in {2, 10, 99}, i \in {0, 16} }
\* a movement run paints this many frames
MaxMoveFrames == 2

NextMove ==
    \/ SetMode("circles")
    \/ \E pose \in MovePoses : \E rnd \in MoveRandoms :
            /\ frame.count < MaxMoveFrames
            /\ Visualize(<< pose >>, << rnd >>)

SpecMove == InitPainter /\ [][NextMove]_vars

\* the app: poses with the left wrist alone above the threshold
AppPose(s) == Standing(s, ConfOnly({9}, 90, 5))
\* an app run paints this many frames
MaxAppFrames == 3

InitApp ==
    /\ focus = "app"
    /\ InitHex
    /\ InitMgr
    /\ InitSys
    /\ InitVis

NextApp ==
    \/ ToggleCamera
    \/ TogglePresentationMode
    \/ \E mode \in {"keypoints", "circles", "smoke", "fireworks"} : SelectPaintMode(mode)
    \/ PressSpace
    \/ \E n \in 0..MaxPoses : \E dt \in {FrameMs, EmitInterval} :
        \E decays \in [1..SparksPerBurst -> {MinDecay * 10}] :
            /\ frame.count < MaxAppFrames
            /\ Len(gets) + SparksPerBurst <= MaxTriggers * SparksPerBurst
            /\ Draw([s \in 1..n |-> AppPose(s)], dt, [s \in 1..n |-> decays],
                    NoRandom([s \in 1..n |-> s]))

SpecApp == InitApp /\ [][NextApp]_vars

\* presentation mode: frames of 0 to MaxPoses people with the camera running or stopped,
\* between the selector, the Space key and the two toggles
MaxPresentationFrames == 3

NextPresentation ==
    \/ ToggleCamera
    \/ TogglePresentationMode
    \/ \E mode \in {"circles", "smoke", "fireworks"} : SelectPaintMode(mode)
    \/ PressSpace
    \/ \E n \in 0..MaxPoses :
        \E decays \in [1..SparksPerBurst -> {MinDecay * 10}] :
            /\ frame.count < MaxPresentationFrames
            /\ Len(gets) + SparksPerBurst <= MaxTriggers * SparksPerBurst
            /\ Draw([s \in 1..n |-> AppPose(s)], EmitInterval, [s \in 1..n |-> decays],
                    NoRandom([s \in 1..n |-> s]))
    \/ (frame.count < MaxPresentationFrames /\ DrawStopped(EmitInterval))

SpecPresentation == InitApp /\ [][NextPresentation]_vars

\* the Space key pressed in any mode, between frames, the selector and the two toggles
MaxSpaceKeys == 2
MaxSpaceFrames == 2

NextSpace ==
    \/ ToggleCamera
    \/ TogglePresentationMode
    \/ \E mode \in {"circles", "smoke", "fireworks"} : SelectPaintMode(mode)
    \/ (spaceKey.count < MaxSpaceKeys /\ KeydownSpace)
    \/ \E n \in 0..MaxPoses :
        \E decays \in [1..SparksPerBurst -> {MinDecay * 10}] :
            /\ frame.count < MaxSpaceFrames
            /\ Len(gets) + SparksPerBurst <= MaxTriggers * SparksPerBurst
            /\ Draw([s \in 1..n |-> AppPose(s)], EmitInterval, [s \in 1..n |-> decays],
                    NoRandom([s \in 1..n |-> s]))

SpecSpace == InitApp /\ [][NextSpace]_vars

\* undersized poses: the first 0, 3, 10 or all 17 keypoints of a standing body, every
\* keypoint above the threshold or every keypoint below it
ShortLengths == {0, 3, 10, Len(BaseX)}
ShortPoses ==
    { SubSeq(Standing(1, ConfAll(c)), 1, len) : len \in ShortLengths, c \in {5, 90} }
\* an undersized run paints this many frames
MaxShortFrames == 1

NextShort ==
    \/ \E mode \in {"skeleton", "trails", "circles", "fireworks"} : SetMode(mode)
    \/ \E poses \in Frames(ShortPoses) :
            /\ frame.count < MaxShortFrames
            /\ Visualize(poses, NoRandom(poses))

SpecShort == InitPainter /\ [][NextShort]_vars

\* purging: several bursts are triggered in one call (a gesture tick with crown and
\* halo, or an ambient emission for a pose with three keypoints above the threshold) and
\* then fade over empty frames. The sparks of the bursts, in trigger order, decay
\* slowly except for one run of consecutive sparks that decays fast.
PurgeDecays(bursts) ==
    { [k \in 1..bursts |-> [i \in 1..SparksPerBurst |->
          IF (k - 1) * SparksPerBurst + i \in a..b THEN 59 ELSE MinDecay * 10]] :
        a \in 1..(bursts * SparksPerBurst), b \in 0..(bursts * SparksPerBurst) }
PurgePose == Standing(1, ConfOnly({0, 9, 10}, 90, 5))
GesturePose(s) == HandsUpPose(s)

InitPurge ==
    /\ focus \in {"visualizer", "system"}
    /\ InitHex
    /\ InitMgr
    /\ InitSys
    /\ InitVis

NextPurge ==
    \/ SetMode("fireworks")
    \/ \E crown \in BOOLEAN, halo \in BOOLEAN : \E ds \in PurgeDecays(2 + RingCount) :
            /\ paintMode = "fireworks"
            /\ mgrTriggers = 0
            /\ VisualizeAt(QuietMs + 1, << GesturePose(1) >>,
                           << [roll |-> 99, index |-> 0, recolor |-> 1, fresh |-> 1,
                               crown |-> crown, halo |-> halo, decays |-> ds] >>)
    \/ (mgrFireworks # << >> /\ Visualize(<< >>, << >>))
    \/ \E ds \in PurgeDecays(TrustedCount(PurgePose, MinConfidence)) :
            /\ gets = << >>
            /\ SysEmit(EmitInterval, PurgePose, ds)
    \/ (sysFireworks # << >> /\ SysUpdateAndDraw)

SpecPurge == InitPurge /\ [][NextPurge]_vars

\* gestures: shoulders at y = 200; wrists up (150), exactly at the margin (190) or down
\* (250); the body in place or 31 px aside; the right shoulder at the threshold
GestureBody(s, dx, lwy, rwy, conf) == MkPose(100 * s + dx, 0, lwy, rwy, conf)
GestureFrames ==
    { << GestureBody(0, 0, 150, 150, ConfAll(90)) >>,
      << GestureBody(0, 31, 250, 250, ConfAll(90)) >>,
      << GestureBody(0, 0, 190, 150, ConfAll(90)) >>,
      << GestureBody(0, 0, 150, 150, ConfOnly({6}, MinConfidence, 90)) >>,
      << GestureBody(0, 0, 250, 250, ConfAll(90)), GestureBody(1, 0, 150, 150, ConfAll(90)) >> }
\* Math.random() gives a crown and no halo; the sparks fade fast
GestureRandom ==
    [roll |-> 99, index |-> 0, recolor |-> 1, fresh |-> 1, crown |-> TRUE, halo |-> FALSE,
     decays |-> [k \in 1..2 |-> [i \in 1..SparksPerBurst |-> 59]]]
\* a gesture run paints this many frames
MaxGestureFrames == 3

\* the times between frames: a 60 fps frame, exactly the cadence, one ms more, and
\* the length of the window
NextGesture ==
    \/ \E mode \in {"circles", "fireworks"} : SetMode(mode)
    \/ \E dt \in {FrameMs, FireworksInterval, FireworksInterval + 1, SustainMs} :
        \E poses \in GestureFrames :
            /\ frame.count < MaxGestureFrames
            /\ VisualizeAt(dt, poses, [n \in DOMAIN poses |-> GestureRandom])

SpecGesture == InitPainter /\ [][NextGesture]_vars

\* a held gesture: one pose, every keypoint trusted, kept in every frame of the run with
\* both wrists well above the shoulder line (150) or 5 px above it (195)
HoldPoses ==
    { GestureBody(0, 0, 150, 150, ConfAll(90)), GestureBody(0, 0, 195, 195, ConfAll(90)) }
\* frames are painted until the clock passes this many ms
Horizon == 4500

\* the draw loop paints a frame after every frame, one ms more than the cadence or one
\* ms more than the quiet time after the last
NextHold ==
    \/ (paintMode # "fireworks" /\ SetMode("fireworks"))
    \/ \E dt \in {FireworksInterval + 1, QuietMs + 1} : \E pose \in HoldPoses :
            /\ paintMode = "fireworks"
            /\ now < Horizon
            /\ frame.count = 0 \/ frame.poses = << pose >>
            /\ VisualizeAt(dt, << pose >>, << GestureRandom >>)

\* what a step of NextHold does to the mode and the clock: it is enabled exactly when
\* NextHold is, and every step of NextHold is one
HoldStep ==
    \/ paintMode # "fireworks" /\ paintMode' = "fireworks" /\ now' = now
    \/ /\ paintMode = "fireworks"
       /\ now < Horizon
       /\ paintMode' = paintMode
       /\ now' \in {now + FireworksInterval + 1, now + QuietMs + 1}

\* p5 calls draw(), and so visualize, again and again: the frames do not stop
SpecHold == InitPainter /\ [][NextHold]_vars /\ WF_<<paintMode, now>>(HoldStep)

\* smoke: both wrists above the threshold, or the left wrist alone
SmokePoses == { Standing(1, ConfOnly({9, 10}, 90, 5)), Standing(1, ConfOnly({9}, 90, 5)) }
\* a smoke run makes this many emitFromPose calls
MaxSmokeEmits == 3

InitSmoke ==
    /\ focus = "smoke"
    /\ InitHex
    /\ InitMgr
    /\ InitSys
    /\ InitVis

NextSmoke ==
    \/ \E pose \in SmokePoses : smokeLog.emits < MaxSmokeEmits /\ SmokeEmit(pose)
    \/ (smokeParticles # << >> /\ SmokeRunAll)
    \/ (smokeParticles # << >> /\ SmokeClear)

SpecSmoke == InitSmoke /\ [][NextSmoke]_vars

\* the smoke tracker's inputs: the wrists 0, 9, 10 or 150 px from where the standing
\* pose holds them, both wrists trusted or the left one only
TrackOffsets == {0, 9, 10, 150}
TrackPoses ==
    { MkPose(0, 0, 150 + l, 150 + r, ConfOnly(S, 90, 5)) :
        l \in TrackOffsets, r \in {0, 10}, S \in {{9, 10}, {9}} }
\* the canvas is 640 x 480 or 1280 x 960
CanvasFactors == {1, 2}
\* a tracking run makes this many emitFromPose calls
MaxTrackEmits == 3

NextSmokeTrack ==
    \/ \E factor \in CanvasFactors : \E pose \in TrackPoses :
          smokeLog.emits < MaxTrackEmits /\ SmokeEmitOn(factor, pose)
    \/ (smokeLog.op = "emit" /\ SmokeRunAll)
    \/ (smokeLog.op = "run" /\ SmokeClear)

SpecSmokeTrack == InitSmoke /\ [][NextSmokeTrack]_vars

\* the frames of a smoke session: the person of slot s stands 100 * s px to the right,
\* shifted by 0, 6 or 30 px, both wrists trusted
SmokeShifts == {0, 6, 30}
SmokeBody(s, dx) == MkPose(100 * s + dx, 0, 150, 150, ConfOnly({9, 10}, 90, 5))
SmokeFrames ==
    UNION { { [s \in 1..n |-> SmokeBody(s, dx[s])] : dx \in [1..n -> SmokeShifts] } :
            n \in 0..MaxPoses }
\* a smoke session paints this many frames
MaxSmokeFrames == 3

NextSmokeFrames ==
    \/ (~isCameraActive /\ ToggleCamera)
    \/ SelectPaintMode("smoke")
    \/ \E poses \in SmokeFrames :
          /\ paintMode = "smoke"
          /\ frame.count < MaxSmokeFrames
          /\ Draw(poses, FrameMs, [s \in DOMAIN poses |-> [k \in 1..SparksPerBurst |-> MinDecay * 10]],
                  NoRandom(poses))

SpecSmokeFrames == InitApp /\ [][NextSmokeFrames]_vars

\* a session that goes through the four engines: the modes the selector offers here,
\* frames of up to MaxPoses standing people, 101 ms apart (every engine is due)
EngineModes == {"circles", "particles", "smoke", "fireworks"}
\* an engine session paints this many frames
MaxEngineFrames == 4

NextEngines ==
    \/ (~isCameraActive /\ ToggleCamera)
    \/ (frame.count = 0 /\ TogglePresentationMode)
    \/ \E mode \in EngineModes : SelectPaintMode(mode)
    \/ \E n \in 0..MaxPoses :
          /\ frame.count < MaxEngineFrames
          /\ Draw([s \in 1..n |-> AppPose(s)], EmissionInterval + 1,
                  [s \in 1..n |-> [k \in 1..SparksPerBurst |-> MinDecay * 10]],
                  NoRandom([s \in 1..n |-> s]))

SpecEngines == InitApp /\ [][NextEngines]_vars

\* particles: nose well above the threshold, left wrist just above it, right wrist at it
ParticlePose ==
    Standing(1, [n \in 1..Len(BaseX) |->
                    IF n = 1 THEN 90 ELSE IF n = 10 THEN MinConfidence + 1
                    ELSE IF n = 11 THEN MinConfidence ELSE 5])
\* a particle run makes this many emitFromPose and this many update calls
MaxPsEmits == 3
MaxPsUpdates == 2

InitParticles ==
    /\ focus \in {"particles", "legacy-particles"}
    /\ InitHex
    /\ InitMgr
    /\ InitSys
    /\ InitVis

\* the times between emitFromPose calls: a frame, exactly the emitter's interval, and
\* one ms more
NextParticles ==
    \/ \E dt \in {FrameMs, EmissionInterval, EmissionInterval + 1,
                   LegacyEmissionInterval, LegacyEmissionInterval + 1} :
            /\ particleSystem.emits < MaxPsEmits
            /\ PsEmitFromPose(dt, ParticlePose)
    \/ (particleSystem.updates < MaxPsUpdates /\ PsUpdate)
    \/ PsClear
    \/ \E count \in {ParticleCount - 1, ParticleCount + 1} :
            /\ Len(particleSystem.counts) < 1
            /\ PsSetParticleCount(count)

SpecParticles == InitParticles /\ [][NextParticles]_vars

\* particle lives: the update calls a particle of the engine lives, ceil(1 / decay)
LifeFrames(ps) ==
    LET d == IF ps.legacy THEN LegacyParticleDecay ELSE ParticleDecay
    IN  (ParticleLife + d - 1) \div d
\* people are in view, and the sketch may be reset, during the first frames and again
\* when the first particles are about to die
EmitFrames(ps) == {0, 1, LifeFrames(ps) - 1, LifeFrames(ps)}
\* a run over particle lives makes this many emitFromPose calls
MaxLifeEmits == 3

NextParticleLife ==
    \/ \E dt \in {FrameMs, LegacyEmissionInterval + 1} :
            /\ particleSystem.emits < MaxLifeEmits
            /\ particleSystem.updates \in EmitFrames(particleSystem)
            /\ PsEmitFromPose(dt, ParticlePose)
    \/ (particleSystem.updates <= LifeFrames(particleSystem) /\ PsUpdate)
    \/ (particleSystem.updates \in EmitFrames(particleSystem) /\ PsClear)

SpecParticleLife == InitParticles /\ [][NextParticleLife]_vars

\* the cases of the switch in visualize
VisualizerModes == {"keypoints", "skeleton", "trails", "circles", "fireworks"}
\* mode strings the switch has no case for
UnknownModes == {"rainbow", "Keypoints", "smoke", ""}
\* a run with unknown modes paints this many frames
MaxModeFrames == 3

NextMode ==
    \/ \E mode \in {"trails", "circles"} \cup UnknownModes : SetMode(mode)
    \/ \E n \in 0..MaxPoses : \E up \in BOOLEAN :
            /\ frame.count < MaxModeFrames
            /\ Visualize([s \in 1..n |-> IF up THEN HandsUpPose(s) ELSE HandsDownPose(s)],
                         NoRandom([s \in 1..n |-> s]))

SpecMode == InitPainter /\ [][NextMode]_vars

(***************************************************************************)
(* Claims                                                                  *)
(***************************************************************************)
SeqRange(q) == { q[i] : i \in DOMAIN q }

\* the burst triggered last: no trigger has followed its creation
SysLatest(f) == f.seq * SparksPerBurst = Len(gets)

\* C6: with no further triggers every burst is dead (and dropped) after at most
\* LifeBound = 122 updateAndDraw calls, and a burst is found isDead() only when every
\* spark it was created with has reached life <= 0. FireworksManager: a burst in the
\* list has survived fewer than 122 updates, and a dropped burst has dropped each of
\* its sparks at life <= 0. FireworksSystem: no burst is left 122 updates after the
\* last trigger, a dropped burst has dropped each slot it was created with at
\* life <= 0, and the slots of the last burst triggered hold life <= 0 when it is dropped.
BurstDiesInBoundAndNotEarly ==
    /\ \A i \in DOMAIN mgrFireworks :
          mgrFireworks[i].age < LifeBound /\ ~FireworkIsDead(mgrFireworks[i])
    /\ \A i \in DOMAIN mgrPurged :
          LET f == mgrPurged[i]
          IN  /\ f.age <= LifeBound
              /\ Len(f.gone) = SparksPerBurst
              /\ \A k \in DOMAIN f.gone : f.gone[k].life <= 0
    /\ sysFireworks # << >> => sysSince < LifeBound
    /\ \A i \in DOMAIN sysPurged :
          LET f == sysPurged[i]
          IN  /\ \A slot \in SeqRange(f.born) :
                    \E k \in DOMAIN f.gone : f.gone[k].slot = slot /\ f.gone[k].life <= 0
              /\ SysLatest(f) => \A slot \in SeqRange(f.born) : pool[slot + 1].life <= 0

\* C6 witness: a pooled burst that lived the full 122 updates is dropped
BurstDiesAtBound ==
    \E i \in DOMAIN sysPurged :
        /\ sysPurged[i].age = LifeBound
        /\ SysLatest(sysPurged[i])
        /\ \A slot \in SeqRange(sysPurged[i].born) : pool[slot + 1].life <= 0

\* C7: the pool keeps its constructed capacity, the cursor stays in [0, capacity),
\* the k-th get() returns slot (k - 1) mod capacity, so the (capacity + 1)-th get()
\* returns the slot of the first, active or not.
PoolIsRing ==
    /\ Len(pool) = PoolSize
    /\ cursor \in 0..(PoolSize - 1)
    /\ \A k \in DOMAIN gets : gets[k].slot = (k - 1) % PoolSize
    /\ Len(gets) > PoolSize => gets[PoolSize + 1].slot = gets[1].slot

\* C7 witness: the (capacity + 1)-th get() hands out the first slot while it is active
PoolReusesActiveSlot ==
    /\ Len(gets) > PoolSize
    /\ gets[PoolSize + 1].slot = gets[1].slot
    /\ gets[PoolSize + 1].wasActive

ToHex2(v) == << LowerDigits[(v \div 16) + 1], LowerDigits[(v % 16) + 1] >>
RgbToHex(c) == <<"#">> \o ToHex2(c.r) \o ToHex2(c.g) \o ToHex2(c.b)
ToLower(str) ==
    [i \in DOMAIN str |->
        IF \E k \in 1..16 : UpperDigits[k] = str[i]
        THEN LowerDigits[CHOOSE k \in 1..16 : UpperDigits[k] = str[i]]
        ELSE str[i]]
IsHashRRGGBB(str) == Len(str) = 7 /\ str[1] = "#" /\ \A i \in 2..7 : IsHexDigit(str[i])
RoundTrips(c, str) ==
    IF c = Null THEN FALSE
    ELSE /\ c.r \in 0..255 /\ c.g \in 0..255 /\ c.b \in 0..255
         /\ RgbToHex(c) = ToLower(str)

\* C8: for a valid #RRGGBB string, both hexToRgb methods return components in
\* 0..255 whose two-digit hex re-encoding is the argument, compared in lower case.
HexRoundTrip ==
    (hexOut # << >> /\ IsHashRRGGBB(hexIn)) =>
        RoundTrips(hexOut[1].vis, hexIn) /\ RoundTrips(hexOut[1].spark, hexIn)

\* C8 witness: a mixed-case argument has been converted
HexConvertedMixedCase ==
    /\ hexOut # << >>
    /\ hexIn = <<"#", "a", "F", "9", "9", "F", "a">>
    /\ hexOut[1].vis = [r |-> 175, g |-> 153, b |-> 250]

\* the snapshots of a buffer are the last Len(buf) of the pushes made, in push order
HoldsLastPushes(buf, pushes, cap) ==
    /\ Len(buf) = Min(pushes, cap)
    /\ \A k \in DOMAIN buf : buf[k].seq = pushes - Len(buf) + k

\* C2: every per-pose trail buffer holds at most its cap of snapshots (15 in
\* PoseVisualizer, 20 in the legacy sketch) and holds exactly the most recently pushed
\* snapshots in push order, the last being the snapshot of the pose just painted.
TrailHoldsLastPushes ==
    \A s \in 1..MaxPoses :
        /\ Len(poseTrails[s]) <= TrailCap
        /\ Len(legacyTrails[s]) <= LegacyTrailCap
        /\ focus = "visualizer" => HoldsLastPushes(poseTrails[s], trailPushes[s], TrailCap)
        /\ focus = "legacy" => HoldsLastPushes(legacyTrails[s], trailPushes[s], LegacyTrailCap)
        /\ (focus = "legacy" /\ s <= Len(frame.poses)) =>
                legacyTrails[s][Len(legacyTrails[s])].pts =
                    Snapshot(frame.poses[s], MinConfidence, 0).pts
        /\ (focus = "visualizer" /\ s <= Len(frame.poses) /\ trailPushes[s] > 0) =>
                poseTrails[s][Len(poseTrails[s])].pts =
                    Snapshot(frame.poses[s], MinConfidence, 0).pts

\* C2 witness: cap + 5 frames pushed into a slot that now holds the last cap of them
TrailEvictedFive ==
    /\ trailPushes[1] = TrailCap + ExtraFrames
    /\ Len(poseTrails[1]) = TrailCap
    /\ poseTrails[1][1].seq = ExtraFrames + 1
    /\ poseTrails[1][TrailCap].seq = TrailCap + ExtraFrames

\* the slots the last visualize call ran drawTrails on
TrailSlots ==
    { s \in 1..MaxPoses :
        focus = "visualizer" /\ s <= Len(frame.poses) /\ trailPushes[s] > 0 }
TrailDrawn(s) == { d \in SeqRange(drawn) : d.op = "trail" /\ d.pose = s - 1 }

\* C3 as stated: the snapshot a drawTrails call pushes is never drawn in that call.
NewestSnapshotNeverDrawn ==
    \A s \in TrailSlots : \A d \in TrailDrawn(s) : d.seq # trailPushes[s]

\* C3 amended: a drawTrails call draws from the buffer as it is after the push, every
\* snapshot but the one at index 0: the snapshot it has just pushed is drawn, last and
\* at the highest alpha, whenever the buffer held a snapshot before the call and the new
\* snapshot has a point; only the first call on an empty buffer draws nothing.
TrailDrawsAllButOldest ==
    \A s \in TrailSlots :
        LET buf == poseTrails[s]
        IN  /\ { <<d.t, d.seq>> : d \in TrailDrawn(s) } =
                    { <<t, buf[t + 1].seq>> :
                        t \in { u \in 1..(Len(buf) - 1) : buf[u + 1].pts # << >> } }
            /\ \A d \in TrailDrawn(s) : d.len = Len(buf) /\ d.seq # buf[1].seq
            /\ (Len(buf) >= 2 /\ buf[Len(buf)].pts # << >>) =>
                    \E d \in TrailDrawn(s) : d.seq = trailPushes[s] /\ d.t = Len(buf) - 1

\* C3 witness: on a full buffer the snapshot just pushed is drawn at index cap - 1
NewestSnapshotDrawn ==
    \E s \in TrailSlots : \E d \in TrailDrawn(s) :
        /\ Len(poseTrails[s]) = TrailCap
        /\ trailPushes[s] > TrailCap
        /\ d.seq = trailPushes[s]
        /\ d.t = TrailCap - 1

\* the keypoints of the last frame, with their pose slot
FrameKeypoints ==
    { [s |-> s, j |-> j, k |-> Keypoint(frame.poses[s], j)] :
        s \in DOMAIN frame.poses, j \in 0..(Len(BaseX) - 1) }
\* the points a draw call touches
DrawnAt(d) ==
    IF d.op = "line" THEN { <<d.ax, d.ay>>, <<d.bx, d.by>> } ELSE { <<d.x, d.y>> }

\* C1: in keypoints, skeleton and circles mode no circle, line or glow is drawn at or to
\* the coordinates of a keypoint whose confidence is <= minConfidence, and both
\* endpoints of every skeleton line have confidence > minConfidence.
OnlyTrustedKeypointsDrawn ==
    /\ \A p \in FrameKeypoints :
          p.k.confidence <= MinConfidence =>
              \A d \in SeqRange(drawn) : <<p.k.x, p.k.y>> \notin DrawnAt(d)
    /\ \A d \in SeqRange(drawn) :
          d.op = "line" =>
              /\ Keypoint(frame.poses[d.pose + 1], d.a).confidence > MinConfidence
              /\ Keypoint(frame.poses[d.pose + 1], d.b).confidence > MinConfidence

\* C1 witness: a skeleton frame with a line drawn while the same pose has keypoints
\* exactly at the threshold
LineDrawnBesideThreshold ==
    \E d \in SeqRange(drawn) :
        /\ d.op = "line"
        /\ \E p \in FrameKeypoints : p.s = d.pose + 1 /\ p.k.confidence = MinConfidence

\* some pose of the last frame held its hands up
GestureHolds == \E n \in DOMAIN frame.handsUp : frame.handsUp[n]

\* C4: over a circles-mode frame handsUpGrowth does not decrease when the hands-up
\* gesture holds in the frame, does not increase when it does not, and stays in
\* [0, maxGrowthMultiplier].
GrowthFollowsGesture ==
    [][ /\ handsUpGrowth' \in 0..MaxGrowthMultiplier
        /\ (frame'.count # frame.count /\ GestureHolds') => handsUpGrowth' >= handsUpGrowth
        /\ (frame'.count # frame.count /\ ~GestureHolds') => handsUpGrowth' <= handsUpGrowth
      ]_vars

\* C5: checkHandsUp returns true exactly when the nose is trusted (its confidence is
\* not below minConfidence) and a wrist with confidence > minConfidence has y strictly
\* smaller than the nose's y; a wrist at or below the threshold never counts.
HandsUpIffTrustedWristAboveNose ==
    \A n \in DOMAIN frame.handsUp :
        LET nose == Keypoint(frame.poses[n], 0)
            Counts(w) == w.confidence > MinConfidence /\ w.y < nose.y
            glows == { d \in SeqRange(drawn) : d.op = "glow" /\ d.pose = n - 1 }
        IN  /\ frame.handsUp[n] <=>
                    /\ nose.confidence >= MinConfidence
                    /\ Counts(Keypoint(frame.poses[n], 9)) \/ Counts(Keypoint(frame.poses[n], 10))
            /\ \A d \in glows : d.grown = frame.handsUp[n]

\* C5 witness: nose 0.9 at y = 100, left wrist 0.9 at y = 50, right wrist 0.05 at
\* y = 150 has been found hands-up
HandsUpByLeftWristAlone ==
    /\ Len(frame.handsUp) = 1
    /\ frame.handsUp[1]
    /\ Keypoint(frame.poses[1], 0) = [x |-> 320, y |-> 100, confidence |-> 90]
    /\ Keypoint(frame.poses[1], 9) = [x |-> 250, y |-> 50, confidence |-> 90]
    /\ Keypoint(frame.poses[1], 10) = [x |-> 390, y |-> 150, confidence |-> 5]
    /\ handsUpGrowth > 0

\* C10: a frame whose average core displacement is exactly poseMovementThreshold is put
\* on the same side by the stillness timer and by the recolor logic, a frame below the
\* threshold is still with no recolor, a frame above it moving with recolor.
BoundaryClassifiedConsistently ==
    \A n \in DOMAIN frame.moves :
        LET m == frame.moves[n]
        IN  /\ (m.timer = "moving") <=> (m.recolor # "none")
            /\ m.num < PoseMovementThreshold * m.den => m.timer = "still"
            /\ m.num > PoseMovementThreshold * m.den => m.timer = "moving"

\* what an engine still holds: the smoke particles (a held particle has lifespan >= 0),
\* and the life left in the sparks of the ambient and of the overlay bursts
SmokeHeld == SumSeq([i \in DOMAIN smokeParticles |-> smokeParticles[i] + 1])
AmbientHeld ==
    SumSeq([i \in DOMAIN sysFireworks |->
        SumSeq([k \in DOMAIN sysFireworks[i].sparks |->
            Max(pool[sysFireworks[i].sparks[k] + 1].life, 1)])])
OverlayHeld ==
    SumSeq([i \in DOMAIN mgrFireworks |->
        SumSeq([k \in DOMAIN mgrFireworks[i].sparks |-> mgrFireworks[i].sparks[k].life])])

\* C9: in a frame drawn with zero poses while the camera is active, every engine that
\* holds bursts or particles decays them (what it holds strictly shrinks, so it is
\* empty after a bounded number of such frames), whatever the paint mode.
EnginesDecayWithoutPoses ==
    [][ (frame'.count # frame.count /\ frame'.poses = << >>) =>
            /\ SmokeHeld > 0 => SmokeHeld' < SmokeHeld
            /\ AmbientHeld > 0 => AmbientHeld' < AmbientHeld
            /\ OverlayHeld > 0 => OverlayHeld' < OverlayHeld
      ]_vars

\* C11: visualize never throws for a pose with fewer than 17 keypoints or for a
\* connection whose endpoint index is absent from the pose, in any mode: the call
\* returns normally and every pose of the frame has been handled.
VisualizeNeverThrows == ~threw

\* C12: a visualize call made while paintMode is a string outside the recognized set
\* draws no keypoint, line, trail or circle, raises no exception, and leaves the trail
\* buffers, the colour assignments and the growth state as they were.
UnknownModeDrawsNothing ==
    [][ (frame'.count # frame.count /\ paintMode \notin VisualizerModes) =>
            /\ drawn' = << >>
            /\ ~threw'
            /\ poseTrails' = poseTrails
            /\ trailPushes' = trailPushes
            /\ poseColors' = poseColors
            /\ handsUpGrowth' = handsUpGrowth
      ]_vars

\* C12 witness: a frame with a pose was painted in an unknown mode while a trail was
\* buffered, colours were assigned and the growth was above zero; nothing was drawn
UnknownModeFramePainted ==
    /\ frame.mode \in UnknownModes
    /\ frame.poses # << >>
    /\ drawn = << >>
    /\ ~threw
    /\ poseTrails[1] # << >>
    /\ poseColors[1] # << >>
    /\ handsUpGrowth > 0

\* the bursts of a list are in the order in which they were triggered
InTriggerOrder(fs) == \A i, j \in DOMAIN fs : i < j => fs[i].seq < fs[j].seq

\* C13: after every updateAndDraw of FireworksManager and of FireworksSystem the active
\* list holds no burst whose isDead() is true, the bursts dropped were all dead, and
\* the bursts kept are in the order in which they were triggered.
PurgedAndOrdered ==
    /\ \A i \in DOMAIN mgrFireworks : ~FireworkIsDead(mgrFireworks[i])
    /\ \A i \in DOMAIN mgrPurged : FireworkIsDead(mgrPurged[i])
    /\ InTriggerOrder(mgrFireworks)
    /\ \A i \in DOMAIN sysFireworks : ~FireworkIsDead(sysFireworks[i])
    /\ \A i \in DOMAIN sysPurged : FireworkIsDead(sysPurged[i])
    /\ InTriggerOrder(sysFireworks)

\* C13 witness: an updateAndDraw of the pooled system has dropped the first of three
\* bursts and kept the second and the third, in that order
FirstBurstPurgedAlone ==
    /\ Len(sysPurged) = 1
    /\ sysPurged[1].seq = 1
    /\ Len(sysFireworks) = 2
    /\ sysFireworks[1].seq = 2
    /\ sysFireworks[2].seq = 3

\* C14: in ambient fireworks mode, in a frame where at least emitInterval ms have
\* passed since the last emission, every keypoint above minConfidence of every pose of
\* the frame gets exactly one new burst; when less has passed no burst is created.
AmbientBurstPerKeypoint ==
    [][ (/\ frame'.count # frame.count
         /\ frame'.mode = "fireworks"
         /\ frame'.poses # << >>
         /\ sysEnabled) =>
            LET created == (Len(gets') - Len(gets)) \div SparksPerBurst
                wanted == SumSeq([n \in DOMAIN frame'.poses |->
                                    TrustedCount(frame'.poses[n], MinConfidence)])
            IN  IF now' - sysLastEmit >= EmitInterval
                THEN created = wanted
                ELSE created = 0
      ]_vars

\* C15: ParticleEmitter.emit spawns particles only if more than emissionInterval ms
\* have passed since lastEmissionTime or the number of active particles is at most
\* minParticlesForNewBurst; when neither holds, the emitter's particle list, pool and
\* lastEmissionTime are as before the call.
EmitOnlyWhenDue ==
    \A n \in DOMAIN particleSystem.calls :
        LET c == particleSystem.calls[n]
            due == \/ c.t - c.before.lastEmissionTime > c.before.emissionInterval
                   \/ ActiveCount(c.before) <= c.before.minParticlesForNewBurst
        IN  /\ ~due => /\ c.after.particles = c.before.particles
                       /\ c.after.particlePool = c.before.particlePool
                       /\ c.after.lastEmissionTime = c.before.lastEmissionTime
            /\ c.after # c.before => due

\* C15 witness: an emit call exactly emissionInterval after the last emission, with
\* more active particles than the floor, left the emitter untouched
EmitHeldBackAtInterval ==
    \E n \in DOMAIN particleSystem.calls :
        LET c == particleSystem.calls[n]
        IN  /\ c.t - c.before.lastEmissionTime = c.before.emissionInterval
            /\ ActiveCount(c.before) > c.before.minParticlesForNewBurst
            /\ c.after = c.before

\* C17: once setParticleCount(count) has been called on an initialized ParticleSystem,
\* every emitter's pool capacity (maxParticles, and the pool itself) equals count.
ParticleCountTakesEffect ==
    (particleSystem.initialized /\ particleSystem.counts # << >>) =>
        \A e \in DOMAIN particleSystem.emitters :
            /\ particleSystem.emitters[e].maxParticles = particleSystem.particleCount
            /\ Len(particleSystem.emitters[e].particlePool) = particleSystem.particleCount

WristsAboveShoulders(pose) ==
    /\ Len(pose) > 10
    /\ \A j \in {5, 6, 9, 10} : pose[j + 1].confidence > MinConfidence
    /\ 2 * pose[10].y < pose[6].y + pose[7].y
    /\ 2 * pose[11].y < pose[6].y + pose[7].y

\* C18: fireworksActiveUntil changes only in a visualize frame whose mode is fireworks
\* and that holds a pose with both wrists and both shoulders above the confidence
\* threshold and both wrists above the shoulder line; every other step leaves it as is.
WindowOpensOnlyOnHandsUp ==
    [][ fireworksActiveUntil' # fireworksActiveUntil =>
            /\ frame'.count = frame.count + 1
            /\ frame'.mode = "fireworks"
            /\ \E n \in DOMAIN frame'.poses : WristsAboveShoulders(frame'.poses[n])
      ]_vars

\* C18 witness: the window was extended by a fireworks frame later than the last burst
WindowExtendedAfterBurst ==
    /\ frame.mode = "fireworks"
    /\ fwLog # << >>
    /\ fwLog[Len(fwLog)].tick < now
    /\ fireworksActiveUntil = now + SustainMs

\* C19: any two consecutive gesture hand bursts are on opposite wrists, whichever pose
\* and frame triggered them.
HandsAlternate ==
    \A k \in 1..(Len(fwLog) - 1) : fwLog[k].hand # fwLog[k + 1].hand

\* C19 witness: two consecutive hand bursts triggered by different poses
TwoPosesTookTurns ==
    /\ Len(fwLog) >= 2
    /\ fwLog[1].pose # fwLog[2].pose
    /\ fwLog[1].hand = "right"
    /\ fwLog[2].hand = "left"

\* C20: every gesture burst is emitted at a time before fireworksActiveUntil, and any
\* two consecutive emission ticks are more than fireworksInterval ms apart.
BurstsInsideWindowAtCadence ==
    \A k \in DOMAIN fwLog :
        /\ fwLog[k].tick < fwLog[k].until
        /\ k > 1 => fwLog[k].tick - fwLog[k - 1].tick > FireworksInterval

\* C20 witness: two bursts one ms more than the interval apart, then a frame with the
\* wrists above the shoulder line, past the cadence, after the window had run out, that
\* emitted nothing
BurstWithheldOutsideWindow ==
    /\ Len(fwLog) = 2
    /\ fwLog[2].tick - fwLog[1].tick = FireworksInterval + 1
    /\ frame.mode = "fireworks"
    /\ \E n \in DOMAIN frame.poses : WristsAboveShoulders(frame.poses[n])
    /\ now - fireworksCooldown > FireworksInterval
    /\ now >= fireworksActiveUntil

\* C21: while the sustain window is open, a fireworks frame that holds a pose and comes
\* more than fireworksInterval after the last burst emits a burst, whether or not the
\* trigger condition holds in it (a wrist or shoulder at or below the confidence
\* threshold, or the hands below the shoulder line).
SustainKeepsFiring ==
    [][ ( /\ frame'.count = frame.count + 1
          /\ frame'.mode = "fireworks"
          /\ frame'.poses # << >>
          /\ now' < fireworksActiveUntil
          /\ now' - fireworksCooldown > FireworksInterval ) =>
            Len(fwLog') = Len(fwLog) + 1
      ]_vars

\* all four gesture keypoints of the pose are trusted and both wrists are more than
\* the margin above the shoulder line
WristsWellAboveShoulders(pose) ==
    /\ WristsAboveShoulders(pose)
    /\ 2 * pose[10].y < pose[6].y + pose[7].y - 2 * ShoulderMargin
    /\ 2 * pose[11].y < pose[6].y + pose[7].y - 2 * ShoulderMargin

GrowthStepsOncePerFrame ==
    [][ ( /\ frame'.count = frame.count + 1
          /\ frame'.poses # << >>
          /\ Len(frame'.handsUp) = Len(frame'.poses) ) =>
            /\ (\A n \in DOMAIN frame'.handsUp : frame'.handsUp[n]) =>
                    handsUpGrowth' = Min(handsUpGrowth + GrowthSpeed, MaxGrowthMultiplier)
            /\ (\A n \in DOMAIN frame'.handsUp : ~frame'.handsUp[n]) =>
                    handsUpGrowth' = (handsUpGrowth * 95) \div 100
      ]_vars

\* C24: checkHandsUp gives false for every pose whose nose is not strictly above the
\* confidence threshold, a nose exactly at the threshold included.
NoseHeldToThreshold ==
    \A n \in DOMAIN frame.handsUp :
        ~(frame.poses[n][1].confidence > MinConfidence) => ~frame.handsUp[n]

\* the colours of slot s, unset (0) everywhere while the slot has none
SlotColors(colors, s) ==
    IF colors[s] = << >> THEN [n \in 1..RandomIndexRange |-> 0] ELSE colors[s][1]

\* C25: in a frame where the average movement of a pose is at or below
\* poseMovementThreshold, no colour assigned to a keypoint of the pose changes, and an
\* entry without a colour gets one only because the keypoint is drawn for the first
\* time; an assigned colour changes only in a frame of low or high movement.
NoRecolorAtOrBelowThreshold ==
    [][ frame'.count = frame.count + 1 =>
            \A s \in DOMAIN frame'.moves :
                frame'.moves[s].num <= PoseMovementThreshold * frame'.moves[s].den =>
                    \A n \in 1..RandomIndexRange :
                        LET old == SlotColors(poseColors, s)[n]
                            new == SlotColors(poseColors', s)[n]
                        IN  new # old =>
                                /\ old = 0
                                /\ n - 1 \notin {3, 4}
                                /\ n <= Len(frame'.poses[s])
                                /\ frame'.poses[s][n].confidence > MinConfidence
      ]_vars

\* C25 witness: a pose with colours assigned was painted in a frame in which it had moved
\* by exactly the threshold
PaintedAtThresholdMovement ==
    /\ frame.count > 1
    /\ frame.moves # << >>
    /\ frame.moves[1].num > 0
    /\ frame.moves[1].num = PoseMovementThreshold * frame.moves[1].den
    /\ \E n \in 1..RandomIndexRange : SlotColors(poseColors, 1)[n] # 0

\* the places where live bursts of the FireworksSystem refer to pool slot `slot`
SysHolders(fs, slot) ==
    { <<b, i>> \in (DOMAIN fs) \X (1..SparksPerBurst) :
        i <= Len(fs[b].sparks) /\ fs[b].sparks[i] = slot }

\* C26: an updateAndDraw call of the pooled FireworksSystem advances every live spark
\* (active and held by a live burst) exactly once: its life goes down by decay * 0.7,
\* however many bursts were triggered and whenever.
EachLiveSparkAdvancedOnce ==
    [][ (focus = "system" /\ gets' = gets /\ pool' # pool) =>
            \A slot \in 0..(Len(pool) - 1) :
                (pool[slot + 1].active /\ SysHolders(sysFireworks, slot) # {}) =>
                    pool'[slot + 1].life = pool[slot + 1].life - pool[slot + 1].decay * 70
      ]_vars

\* C27: every pool spark is held by at most one live burst, the live bursts hold no
\* more sparks than the pool has, and a pool spark is active only while a live burst
\* holds it.
EachSparkHeldOnce ==
    /\ \A slot \in 0..(Len(pool) - 1) :
            /\ Cardinality(SysHolders(sysFireworks, slot)) <= 1
            /\ pool[slot + 1].active => SysHolders(sysFireworks, slot) # {}
    /\ SumSeq([b \in DOMAIN sysFireworks |-> Len(sysFireworks[b].sparks)]) <= Len(pool)

\* C28: after every SmokeSystem.run() no particle with lifespan <= 0 is left in the
\* particle list.
NoSpentSmokeAfterRun ==
    smokeLog.op = "run" => \A i \in DOMAIN smokeParticles : smokeParticles[i] > 0

\* C29: the SmokeSystem never holds more than maxParticles particles, and an
\* emitFromPose call adds the particles asked for only as far as there is room: at the
\* cap the particle list is left as it was.
SmokeCapHolds ==
    /\ Len(smokeParticles) <= MaxSmokeParticles
    /\ smokeLog.op = "emit" =>
          /\ Len(smokeParticles) =
                Min(Len(smokeLog.before) + smokeLog.asked, MaxSmokeParticles)
          /\ SubSeq(smokeParticles, 1, Len(smokeLog.before)) = smokeLog.before
          /\ Len(smokeLog.before) = MaxSmokeParticles => smokeParticles = smokeLog.before

\* C29 witness: an emitFromPose call for a pose with trusted wrists found the system at
\* the cap and added nothing
SmokeDeclinedAtCap ==
    /\ smokeLog.op = "emit"
    /\ smokeLog.asked > 0
    /\ Len(smokeLog.before) = MaxSmokeParticles
    /\ smokeParticles = smokeLog.before

\* the active list of the emitter has no duplicates and at most maxParticles entries,
\* and the pool particles marked active are exactly those in the list
EmitterConsistent(em) ==
    /\ \A i, j \in DOMAIN em.particles : em.particles[i] = em.particles[j] => i = j
    /\ Len(em.particles) <= em.maxParticles
    /\ Len(em.particlePool) = em.maxParticles
    /\ { i \in DOMAIN em.particlePool : em.particlePool[i].active }
            = { em.particles[k] : k \in DOMAIN em.particles }

\* the emit call found every pool particle active and emitted
EmittedOnFullPool(c) ==
    /\ \A i \in DOMAIN c.before.particlePool : c.before.particlePool[i].active
    /\ c.after # c.before

\* C30: after every emit, update and clear call each ParticleEmitter is consistent (no
\* duplicates in the active list, at most maxParticles entries, the pool particles
\* marked active exactly those in the list); and an emission on a pool whose particles
\* are all active recycles the oldest particles of the list: they start a new life at
\* the end of the list, and the pool does not grow.
EmittersConsistentAndRecycling ==
    /\ \A e \in DOMAIN particleSystem.emitters : EmitterConsistent(particleSystem.emitters[e])
    /\ \A n \in DOMAIN particleSystem.calls :
          LET c == particleSystem.calls[n]
              old == c.before.particles
          IN  /\ EmitterConsistent(c.before)
              /\ EmitterConsistent(c.after)
              /\ EmittedOnFullPool(c) =>
                    \E k \in 1..Min(c.before.burstSize, Len(old)) :
                        /\ c.after.particles =
                              SubSeq(old, k + 1, Len(old)) \o SubSeq(old, 1, k)
                        /\ \A i \in 1..k : c.after.particlePool[old[i]].life = ParticleLife

\* C30 witness: an emitter whose pool particles were all active, some of them aged,
\* emitted a burst
BurstRecycledOldest ==
    \E n \in DOMAIN particleSystem.calls :
        LET c == particleSystem.calls[n]
        IN  /\ EmittedOnFullPool(c)
            /\ c.before.particlePool[Head(c.before.particles)].life < ParticleLife


\* the measurements of the last direct emitFromPose call
LastTrack == smokeSystem.tracks[Len(smokeSystem.tracks)]

\* C31: in an emitFromPose call that measures an average wrist displacement at or above
\* the movement threshold, targetSizeMultiplier does not end above its value before the
\* call; and in every call sizeMultiplier moves towards the target without reaching it in
\* one step, and stays at or below 4.5
TargetDropsOnMovement ==
    (smokeLog.op = "emit" /\ smokeSystem.tracks # << >>) =>
        LET t == LastTrack
            goal == t.target * 100
        IN  /\ t.num >= t.thr * t.den => t.target <= t.targetBefore
            /\ t.size <= 1350000
            /\ t.sizeBefore < goal => (t.sizeBefore <= t.size /\ t.size < goal)
            /\ t.sizeBefore > goal => (t.sizeBefore >= t.size /\ t.size > goal)

\* C32: every circle the last run() drew is at most 60 px wide, at least as wide as the
\* particle's first circle (lifespan 98) and at least as wide as its circle one frame
\* earlier
SmokeSizeGrowsWithAge ==
    \A i \in DOMAIN smokeSystem.shown :
        LET p == smokeSystem.shown[i]
        IN  /\ p.size <= 60 * 300
            /\ SmokeShowSize(p.baseSize, SmokeLifespan - 2) <= p.size
            /\ p.lifespan < SmokeLifespan - 2 =>
                  SmokeShowSize(p.baseSize, p.lifespan + 2) <= p.size


\* the position of smoke keypoint n in a pose
WristAt(pose, n) ==
    [x |-> Keypoint(pose, SmokeKeypoints[n]).x, y |-> Keypoint(pose, SmokeKeypoints[n]).y]

\* C33: in a frame painted in smoke mode, the emitFromPose call for pose slot k measures
\* each wrist against the position the same wrist of slot k had in the preceding smoke
\* frame when that frame had a slot k, and the frame adds at most one 16 ms step to
\* stillnessTime
SmokeTracksPerSlot ==
    [][ (frame'.count = frame.count + 1 /\ frame'.mode = "smoke") =>
          /\ smokeSystem'.stillnessTime <= smokeSystem.stillnessTime + 16
          /\ \A k \in DOMAIN smokeSystem'.tracks : \A n \in DOMAIN SmokeKeypoints :
                LET against == smokeSystem'.tracks[k].against[n]
                IN  (against # << >> /\ frame.mode = "smoke" /\ k <= Len(frame.poses)) =>
                       against[1] = WristAt(frame.poses[k], n) ]_vars


\* the particle, burst and tracking state of the four engines
VisualizerState ==
    <<poseTrails, poseColors, poseLastPositions, poseStillnessTime, handsUpGrowth,
      trailPushes, mgrFireworks, fireworksActiveUntil, fireworksCooldown, fwAlt>>
ParticleState == <<particleSystem.emitters, particleSystem.initialized>>
SmokeState ==
    <<smokeParticles, smokeSystem.sizes, smokeSystem.lastPositions,
      smokeSystem.stillnessTime, smokeSystem.sizeMultiplier,
      smokeSystem.targetSizeMultiplier>>
AmbientState == <<pool, cursor, sysFireworks, sysLastEmit, sysEnabled>>

\* C34: a draw() frame changes the state of at most the engine its paint mode selects
\* (the mode paintOnCanvas and updateParticles read): ParticleSystem in particles mode,
\* FireworksSystem in fireworks mode, SmokeSystem in smoke mode, PoseVisualizer in
\* every other mode
FrameTouchesOnlyItsEngine ==
    [][ frame'.count # frame.count =>
          LET mode == seenModes'.emit
          IN  /\ mode # "particles" => ParticleState' = ParticleState
              /\ mode # "smoke" => SmokeState' = SmokeState
              /\ mode # "fireworks" => AmbientState' = AmbientState
              /\ mode \in {"particles", "smoke", "fireworks"} =>
                    VisualizerState' = VisualizerState ]_vars

\* C34 witness: a frame was painted in circles mode while the particle engine held live
\* particles, the smoke system held particles and the ambient system held a burst
CirclesFrameBesideLiveEngines ==
    /\ frame.count > 0
    /\ frame.mode = "circles"
    /\ frame.poses # << >>
    /\ \E e \in DOMAIN particleSystem.emitters : ActiveCount(particleSystem.emitters[e]) > 0
    /\ smokeParticles # << >>
    /\ sysFireworks # << >>


\* C35: no visualize call throws, and after a frame painted as trails or as circles every
\* pose slot the frame used has its state: a trail one snapshot longer than before (one
\* snapshot when the slot had none), and colours, last positions and a stillness timer,
\* which for a slot that had no tracking state start from nothing (no displacement
\* measured, the timer at its first 16 ms)
SlotsReadyBeforeUse ==
    [][ frame'.count # frame.count =>
          /\ ~threw'
          /\ \A k \in DOMAIN frame'.poses :
                /\ frame'.mode = "trails" =>
                      Len(poseTrails'[k]) = Min(Len(poseTrails[k]) + 1, TrailCap)
                /\ frame'.mode = "circles" =>
                      /\ poseColors'[k] # << >>
                      /\ poseLastPositions'[k] # << >>
                      /\ poseStillnessTime'[k] # << >>
                      /\ poseColors[k] = << >> =>
                            /\ poseStillnessTime'[k] = << 16 >>
                            /\ frame'.moves[k].num = 0
                            /\ frame'.moves[k].den = 1 ]_vars

\* C35 witness: a circles frame with two people in which the second slot was used for
\* the first time (or for the first time since clearPoseTracking) while the first slot
\* had its timer running
SecondSlotStartedLater ==
    /\ frame.mode = "circles"
    /\ Len(frame.poses) = 2
    /\ ~threw
    /\ poseStillnessTime[1] = << 32 >>
    /\ poseStillnessTime[2] = << 16 >>

\* C36: checkAllHandsUp returns true only when every pose has had its hands up for two
\* seconds of frames in a row (2000 ms at 16 ms a call)
AllHandsUpOnlyAfterTwoSeconds ==
    allHandsUp.returned => allHandsUp.streak * FrameMs >= 2000

\* C36, second half: a call in which some pose has its hands down resets the accumulated
\* time and returns false
AllHandsUpResetOnMiss ==
    (allHandsUp.calls > 0
        /\ \E n \in DOMAIN allHandsUp.poses : ~CheckHandsUp(allHandsUp.poses[n], MinConfidence))
    => (allHandsUp.time = 0 /\ ~allHandsUp.returned)


\* C37: whenever the paint mode is fireworks the ambient FireworksSystem is enabled
FireworksModeKeepsSystemEnabled ==
    (focus = "app" /\ paintMode = "fireworks") => sysEnabled


\* the mode a presentation frame of n people ends in, and what it does to the ambient
\* fireworks when it leaves fireworks mode
PresentationFrameEndsRight ==
    LET n == Len(frame'.poses)
    IN  /\ n = 1 => /\ paintMode' = "smoke"
                    /\ paintMode = "fireworks" => (~sysEnabled' /\ sysFireworks' = << >>)
        /\ n > 1 => paintMode' = (IF paintMode = "fireworks" THEN "fireworks" ELSE "circles")
        /\ n = 0 => paintMode' = paintMode

\* C38 as stated: in presentation mode every frame ends in smoke for one pose (fireworks
\* disabled and cleared when it was fireworks), in circles for several unless it was
\* fireworks, and in the mode it began in for none
PresentationModeAfterEveryFrame ==
    [][(focus = "app" /\ isPresentationMode /\ frame'.count = frame.count + 1)
        => PresentationFrameEndsRight]_vars

\* C38, amended: the same for every frame drawn while the camera is active
PresentationModeAfterCameraFrame ==
    [][(focus = "app" /\ isPresentationMode /\ isCameraActive
            /\ frame'.count = frame.count + 1)
        => PresentationFrameEndsRight]_vars

\* a one-person presentation frame began in fireworks mode, emitted, and ended in smoke
\* with the ambient fireworks disabled and cleared
FireworksLeftForSmoke ==
    /\ focus = "app"
    /\ isPresentationMode
    /\ isCameraActive
    /\ frame.count > 0
    /\ Len(frame.poses) = 1
    /\ frame.mode = "fireworks"
    /\ paintMode = "smoke"
    /\ ~sysEnabled
    /\ sysFireworks = << >>
    /\ Len(gets) > 0


\* C39: a Space keydown in circles mode ends in fireworks mode with the FireworksSystem
\* enabled and its burst list empty; a keydown in any other mode changes neither the
\* paint mode nor the state of any engine
SpaceActsOnlyInCircles ==
    [][spaceKey'.count # spaceKey.count =>
          IF paintMode = "circles"
          THEN paintMode' = "fireworks" /\ sysEnabled' /\ sysFireworks' = << >>
          ELSE UNCHANGED <<paintMode, VisualizerState, ParticleState, SmokeState,
                           AmbientState>>]_vars

\* Space was pressed in circles mode while bursts of an earlier fireworks frame were
\* still listed
SpaceClearedOldBursts ==
    /\ focus = "app"
    /\ spaceKey.count > 0
    /\ spaceKey.mode = "circles"
    /\ spaceKey.bursts > 0
    /\ paintMode = "fireworks"
    /\ sysEnabled
    /\ sysFireworks = << >>

====
